---------------------------- MODULE Spec2Model ----------------------------
(***************************************************************************)
(* Model of the replication engine of k8s-replicator (package replicate). *)
(*                                                                         *)
(* Representation.                                                         *)
(*  - A canonical key "ns/name" is the tuple <<ns, name>>; a path with    *)
(*    more slashes is a longer tuple, a bare name a 1-tuple.               *)
(*  - An object is a record [ns, name, ann, rv, data]; ann is the         *)
(*    annotation map (a function whose DOMAIN is the set of present       *)
(*    annotations), rv the resource version (NoRV = "", else a token that *)
(*    is unique per write), data the payload (Empty, else the token of    *)
(*    the user's write that made it).                                     *)
(*  - A comma separated annotation value is the sequence of its items,    *)
(*    an item the sequence of its "/" separated segments.                 *)
(*  - Go's regexp and the name pattern ^[0-9a-z.-]+$ are tables over the  *)
(*    strings of the model (ValidNames, RegexCompiles, RegexMatch).       *)
(*  - time.Now() is the token "now".                                      *)
(*  - The API server's objects (apiStore) and the informer's cache        *)
(*    (objectStore) are separate: a change reaches the cache when the     *)
(*    informer handles its delta, or at once when the engine writes the   *)
(*    result of an adapter call through. The informer's queue holds the   *)
(*    deltas per key, in the order of the keys' first pending delta.      *)
(***************************************************************************)
EXTENDS Integers, Sequences, FiniteSets, TLC

\* ------------------------------------------------------------------ bounds
\* number of changes the user makes to the cluster in one behaviour
MaxUserOps == 3
\* number of adapter calls the API server may reject in one behaviour
MaxFailures == 1
\* number of periodic resyncs in one behaviour
MaxResyncs == 1
\* the rejected adapter call is one of the first MaxCalls calls of a handler run
MaxCalls == 2

\* ------------------------------------------------------- annotation names
ReplicateFromAnnotation         == "replicate-from"
ReplicateToAnnotation           == "replicate-to"
ReplicateToNsAnnotation         == "replicate-to-namespaces"
ReplicateOnceAnnotation         == "replicate-once"
ReplicateOnceVersionAnnotation  == "replicate-once-version"
ReplicatedAtAnnotation          == "replicated-at"
ReplicatedByAnnotation          == "replicated-by"
ReplicatedFromVersionAnnotation == "replicated-from-version"
ReplicationAllowedAnnotation    == "replication-allowed"
ReplicationAllowedNsAnnotation  == "replication-allowed-namespaces"

annotationRefs ==
    { ReplicateFromAnnotation, ReplicateToAnnotation, ReplicateToNsAnnotation,
      ReplicateOnceAnnotation, ReplicateOnceVersionAnnotation,
      ReplicatedAtAnnotation, ReplicatedByAnnotation,
      ReplicatedFromVersionAnnotation, ReplicationAllowedAnnotation,
      ReplicationAllowedNsAnnotation }

\* annotation keys of the model that carry the configured prefix but no
\* recognised suffix
PrefixedUnknown == { "unknown-annotation" }

\* a variant that finds no unknown annotation
UnknownAnnotationsNone(annotations) == {}

UnknownAnnotations(annotations) ==
    { a \in DOMAIN annotations : a \in PrefixedUnknown /\ a \notin annotationRefs }

\* --------------------------------------------------------- string tables
Namespaces == { "s", "t1", "t2" }
Names      == { "src", "src2", "dst" }
\* the strings of the model that match ^[0-9a-z.-]+$
ValidNames == Namespaces \cup Names \cup { "dst2" }
validName(s) == s \in ValidNames

\* the namespace expressions of the model; "(" does not compile
RegexCompiles(expr) == expr # "("
\* regexp.MatchString("^(?:" + expr + ")$", ns)
RegexMatch(expr, ns) ==
    CASE expr = "t[0-9]+" -> ns \in { "t1", "t2" }
      [] expr = "t2|x"    -> ns = "t2"
      [] expr = ".*"      -> TRUE
      [] OTHER            -> expr = ns

\* strconv.ParseBool: [ok |-> parsed, val |-> value]
ParseBool(str) ==
    IF str \in { "1", "t", "T", "TRUE", "true", "True" } THEN [ok |-> TRUE, val |-> TRUE]
    ELSE IF str \in { "0", "f", "F", "FALSE", "false", "False" } THEN [ok |-> TRUE, val |-> FALSE]
    ELSE [ok |-> FALSE, val |-> FALSE]

\* order of the strings of the model, as sort.Strings orders them
StrRank(s) ==
    CASE s = "dst" -> 1 [] s = "dst2" -> 2 [] s = "s" -> 3 [] s = "src" -> 4
      [] s = "src2" -> 5 [] s = "t1" -> 6 [] s = "t2" -> 7 [] OTHER -> 0

RECURSIVE KeyLess(_, _)
KeyLess(a, b) ==
    IF Len(a) = 0 THEN Len(b) > 0
    ELSE IF Len(b) = 0 THEN FALSE
    ELSE IF StrRank(Head(a)) # StrRank(Head(b)) THEN StrRank(Head(a)) < StrRank(Head(b))
    ELSE KeyLess(Tail(a), Tail(b))

\* ----------------------------------------------------------- small helpers
Has(ann, a) == a \in DOMAIN ann
Range(seq) == { seq[i] : i \in 1..Len(seq) }
Put(f, k, v) == [x \in DOMAIN f \cup {k} |-> IF x = k THEN v ELSE f[x]]
Drop(f, k) == [x \in DOMAIN f \ {k} |-> f[x]]
KeyOf(meta) == <<meta.ns, meta.name>>

\* the elements of a finite set of keys as a sequence in sort.Strings order
RECURSIVE SortedSeq(_)
SortedSeq(S) ==
    IF S = {} THEN <<>>
    ELSE LET m == CHOOSE x \in S : \A y \in S \ {x} : KeyLess(x, y)
         IN <<m>> \o SortedSeq(S \ {m})

\* sort.Strings followed by the skipping of equal neighbours
SortDedup(seq) == SortedSeq(Range(seq))


\* ------------------------------------------------------------ configuration
VARIABLES
    AllowAll,         \* ReplicatorOptions.AllowAll
    IgnoreUnknown     \* ReplicatorOptions.IgnoreUnknown

\* ------------------------------------------------- policy (replicate/common.go)
\* a compiled namespace expression with a literal name
targetPattern(expr, n) == [namespace |-> expr, name |-> n]

Match(pattern, object) ==
    object.name = pattern.name /\ RegexMatch(pattern.namespace, object.ns)

MatchString(pattern, target) ==
    Len(target) = 2 /\ target[2] = pattern.name /\ RegexMatch(pattern.namespace, target[1])

\* the qualified key, or <<>> for ""
MatchNamespace(pattern, namespace) ==
    IF RegexMatch(pattern.namespace, namespace) THEN <<namespace, pattern.name>> ELSE <<>>

Targets(pattern, namespaces) ==
    { <<ns, pattern.name>> : ns \in { n \in namespaces : RegexMatch(pattern.namespace, n) } }

\* [val, ok]
resolveAnnotation(object, annotation) ==
    IF ~Has(object.ann, annotation) THEN [val |-> <<>>, ok |-> FALSE]
    ELSE LET val == object.ann[annotation]
         IN IF Len(val) >= 2 THEN [val |-> val, ok |-> TRUE]
            ELSE [val |-> <<object.ns>> \o val, ok |-> TRUE]

annotationRefersTo(object, annotation, reference) ==
    IF ~Has(object.ann, annotation) THEN FALSE
    ELSE LET val == object.ann[annotation]
         IN IF Len(val) >= 2
            THEN val[1] = reference.ns /\ Tail(val) = <<reference.name>>
            ELSE object.ns = reference.ns /\ val = <<reference.name>>

\* ^(?:[0-9a-z.-]+/)?[0-9a-z.-]+$
validPath(path) ==
    Len(path) \in {1, 2} /\ \A i \in 1..Len(path) : validName(path[i])

\* a variant that takes a source without permission annotations as allowing
isReplicationAllowedByDefault(object, sourceObject) ==
    IF /\ ~Has(sourceObject.ann, ReplicationAllowedAnnotation)
       /\ ~Has(sourceObject.ann, ReplicationAllowedNsAnnotation)
    THEN [ok |-> TRUE, nok |-> FALSE, err |-> ""]
    ELSE [ok |-> FALSE, nok |-> TRUE, err |-> "explicitely disallowed"]

\* a variant that allows a source that carries replicate-from itself
isReplicationAllowedChained(object, sourceObject) ==
    LET ok == Has(sourceObject.ann, ReplicationAllowedAnnotation)
        b  == ParseBool(sourceObject.ann[ReplicationAllowedAnnotation])
    IN  IF ~AllowAll /\ ~ok
        THEN [ok |-> FALSE, nok |-> TRUE, err |-> "no explicit permission"]
        ELSE IF ok /\ ~b.ok
        THEN [ok |-> FALSE, nok |-> FALSE, err |-> "illformed replication-allowed"]
        ELSE IF ok /\ ~b.val
        THEN [ok |-> FALSE, nok |-> TRUE, err |-> "explicitely disallowed"]
        ELSE [ok |-> TRUE, nok |-> FALSE, err |-> ""]

\* [ok, nok, err]: allowed, explicitly disallowed, error message ("" = nil)
isReplicationAllowed(object, sourceObject) ==
    LET ok   == Has(sourceObject.ann, ReplicationAllowedAnnotation)
        okNs == Has(sourceObject.ann, ReplicationAllowedNsAnnotation)
        b    == ParseBool(sourceObject.ann[ReplicationAllowedAnnotation])
        items == sourceObject.ann[ReplicationAllowedNsAnnotation]
        bad(ns)  == ns # "" /\ ~validName(ns) /\ ~RegexCompiles(ns)
        good(ns) == ns # "" /\ (IF validName(ns) THEN ns = object.ns
                                ELSE RegexCompiles(ns) /\ RegexMatch(ns, object.ns))
    IN  IF ~AllowAll /\ ~ok /\ ~okNs
        THEN [ok |-> FALSE, nok |-> TRUE, err |-> "no explicit permission"]
        ELSE IF ok /\ ~b.ok
        THEN [ok |-> FALSE, nok |-> FALSE, err |-> "illformed replication-allowed"]
        ELSE IF ok /\ ~b.val
        THEN [ok |-> FALSE, nok |-> TRUE, err |-> "explicitely disallowed"]
        ELSE IF okNs /\ \E i \in 1..Len(items) : bad(items[i])
        THEN [ok |-> FALSE, nok |-> FALSE, err |-> "compilation error"]
        ELSE IF okNs /\ ~\E i \in 1..Len(items) : good(items[i])
        THEN [ok |-> FALSE, nok |-> TRUE, err |-> "namespace not allowed"]
        ELSE IF resolveAnnotation(sourceObject, ReplicateFromAnnotation).ok
        THEN [ok |-> FALSE, nok |-> TRUE, err |-> "source is already replicated"]
        ELSE [ok |-> TRUE, nok |-> FALSE, err |-> ""]

\* whether replicate-once is present and true: [ok, val]; ok = FALSE on a parse error
OnceOf(object) ==
    IF ~Has(object.ann, ReplicateOnceAnnotation) THEN [ok |-> TRUE, val |-> FALSE]
    ELSE ParseBool(object.ann[ReplicateOnceAnnotation])

\* a variant that does not look at the replicate-once annotations
needsDataUpdateIgnoringOnce(object, sourceObject) ==
    IF /\ Has(object.ann, ReplicatedFromVersionAnnotation)
       /\ object.ann[ReplicatedFromVersionAnnotation] = sourceObject.rv
    THEN [ok |-> FALSE, once |-> FALSE, err |-> "already up-to-date"]
    ELSE [ok |-> TRUE, once |-> FALSE, err |-> ""]

\* a variant that does not look at replicate-once-version
needsDataUpdateOnceForever(object, sourceObject) ==
    IF ~Has(object.ann, ReplicatedFromVersionAnnotation)
    THEN [ok |-> TRUE, once |-> FALSE, err |-> ""]
    ELSE IF object.ann[ReplicatedFromVersionAnnotation] = sourceObject.rv
    THEN [ok |-> FALSE, once |-> FALSE, err |-> "already up-to-date"]
    ELSE IF OnceOf(sourceObject).val \/ OnceOf(object).val
    THEN [ok |-> FALSE, once |-> TRUE, err |-> "already replicated once"]
    ELSE [ok |-> TRUE, once |-> FALSE, err |-> ""]

\* a variant that asks for an update whatever the target carries
needsDataUpdateAlways(object, sourceObject) == [ok |-> TRUE, once |-> FALSE, err |-> ""]

\* [ok, once, err]
needsDataUpdate(object, sourceObject) ==
    IF ~Has(object.ann, ReplicatedFromVersionAnnotation)
    THEN [ok |-> TRUE, once |-> FALSE, err |-> ""]
    ELSE IF object.ann[ReplicatedFromVersionAnnotation] = sourceObject.rv
    THEN [ok |-> FALSE, once |-> FALSE, err |-> "already up-to-date"]
    ELSE IF ~OnceOf(sourceObject).ok
    THEN [ok |-> FALSE, once |-> FALSE, err |-> "source illformed replicate-once"]
    ELSE IF ~OnceOf(object).ok
    THEN [ok |-> FALSE, once |-> FALSE, err |-> "target illformed replicate-once"]
    ELSE IF ~(OnceOf(sourceObject).val \/ OnceOf(object).val)
    THEN [ok |-> TRUE, once |-> FALSE, err |-> ""]
    ELSE IF ~Has(sourceObject.ann, ReplicateOnceVersionAnnotation)
    THEN [ok |-> FALSE, once |-> TRUE, err |-> "already replicated once"]
    ELSE IF Has(object.ann, ReplicateOnceVersionAnnotation)
            /\ object.ann[ReplicateOnceVersionAnnotation]
                 = sourceObject.ann[ReplicateOnceVersionAnnotation]
    THEN [ok |-> FALSE, once |-> TRUE, err |-> "already replicated once at current version"]
    ELSE [ok |-> TRUE, once |-> FALSE, err |-> ""]

\* [ok, err]
needsFromAnnotationsUpdate(object, sourceObject) ==
    LET from == resolveAnnotation(sourceObject, ReplicateFromAnnotation)
        sOk  == Has(sourceObject.ann, ReplicateOnceAnnotation)
        tOk  == Has(object.ann, ReplicateOnceAnnotation)
        fromDiffers == ~Has(object.ann, ReplicateFromAnnotation)
                         \/ object.ann[ReplicateFromAnnotation] # from.val
        onceDiffers == sOk # tOk
                         \/ (tOk /\ object.ann[ReplicateOnceAnnotation]
                                      # sourceObject.ann[ReplicateOnceAnnotation])
    IN  IF ~from.ok THEN [ok |-> FALSE, err |-> "misses replicate-from"]
        ELSE IF ~validPath(from.val) \/ from.val = KeyOf(sourceObject)
        THEN [ok |-> FALSE, err |-> "invalid replicate-from"]
        ELSE IF sOk /\ ~ParseBool(sourceObject.ann[ReplicateOnceAnnotation]).ok
        THEN [ok |-> FALSE, err |-> "illformed replicate-once"]
        ELSE [ok |-> fromDiffers \/ onceDiffers, err |-> ""]

\* [ok, err]
needsAllowedAnnotationsUpdate(object, sourceObject) ==
    LET differs(a) == Has(object.ann, a) # Has(sourceObject.ann, a)
                        \/ (Has(object.ann, a) /\ object.ann[a] # sourceObject.ann[a])
        okA   == Has(sourceObject.ann, ReplicationAllowedAnnotation)
        okNs  == Has(sourceObject.ann, ReplicationAllowedNsAnnotation)
        items == sourceObject.ann[ReplicationAllowedNsAnnotation]
    IN  IF ~(differs(ReplicationAllowedAnnotation) \/ differs(ReplicationAllowedNsAnnotation))
        THEN [ok |-> FALSE, err |-> ""]
        ELSE IF okA /\ ~ParseBool(sourceObject.ann[ReplicationAllowedAnnotation]).ok
        THEN [ok |-> FALSE, err |-> "illformed replication-allowed"]
        ELSE IF okNs /\ \E i \in 1..Len(items) :
                    items[i] # "" /\ ~validName(items[i]) /\ ~RegexCompiles(items[i])
        THEN [ok |-> FALSE, err |-> "compilation error"]
        ELSE [ok |-> TRUE, err |-> ""]

\* a variant that takes every object for a replica of the source
isReplicatedByAnySource(object, sourceObject) == [ok |-> TRUE, err |-> ""]

\* [ok, err]
isReplicatedBy(object, sourceObject) ==
    IF ~Has(object.ann, ReplicatedByAnnotation)
    THEN [ok |-> FALSE, err |-> "was not replicated"]
    ELSE IF object.ann[ReplicatedByAnnotation] # KeyOf(sourceObject)
    THEN [ok |-> FALSE, err |-> "was not replicated from source"]
    ELSE [ok |-> TRUE, err |-> ""]

\* some fixed enumeration of a finite set (Go iterates its maps in no fixed order;
\* the callers below do not depend on the order of one source's own targets)
RECURSIVE SeqOf(_)
SeqOf(S) ==
    IF S = {} THEN <<>>
    ELSE LET x == CHOOSE y \in S : TRUE IN <<x>> \o SeqOf(S \ {x})

\* [targets, patterns, err, isNil]: the literal target keys without the object's
\* own key, the target patterns, the error ("" = nil), and whether both slices
\* are nil (the object declares neither annotation)
getReplicationTargets(object) ==
    LET okTo   == Has(object.ann, ReplicateToAnnotation)
        okToNs == Has(object.ann, ReplicateToNsAnnotation)
        key    == KeyOf(object)
        toItems == IF okTo THEN Range(object.ann[ReplicateToAnnotation]) \ {<<>>} ELSE {}
        nsItems == IF okToNs THEN Range(object.ann[ReplicateToNsAnnotation]) \ {<<>>} ELSE {}
        bare      == { n \in toItems : Len(n) = 1 }
        qualified == { n \in toItems : Len(n) >= 2 }
        names      == IF okTo THEN { n[1] : n \in bare } ELSE { object.name }
        namespaces == IF okToNs THEN { n[1] : n \in nsItems } ELSE { object.ns }
        litNs == { ns \in namespaces : validName(ns) }
        patNs == namespaces \ litNs
        joined    == { <<ns, n>> : ns \in litNs, n \in names } \ {key}
        joinedPat == { <<ns, n>> : ns \in patNs, n \in names }
        seen == joined \cup joinedPat \cup {key}
        todo == qualified \ seen
        errTo   == \E n \in bare : ~validName(n[1])
        errNs   == \E n \in nsItems : Len(n) >= 2
        errJoin == \E ns \in patNs : ~RegexCompiles(ns)
        errQ    == \E q \in todo : \/ Len(q) # 2
                                   \/ ~validName(q[2])
                                   \/ (~validName(q[1]) /\ ~RegexCompiles(q[1]))
        litQ == { q \in todo : Len(q) = 2 /\ validName(q[1]) }
        patQ == { q \in todo : Len(q) = 2 /\ ~validName(q[1]) }
    IN  IF ~okTo /\ ~okToNs
        THEN [targets |-> <<>>, patterns |-> <<>>, err |-> "", isNil |-> TRUE]
        ELSE IF errTo \/ errNs \/ errJoin \/ errQ
        THEN [targets |-> <<>>, patterns |-> <<>>, err |-> "could not parse", isNil |-> TRUE]
        ELSE [targets  |-> SortedSeq(joined \cup litQ),
              patterns |-> SeqOf({ targetPattern(p[1], p[2]) : p \in joinedPat \cup patQ }),
              err |-> "", isNil |-> FALSE]

\* [ok, err]
isReplicatedTo(object, targetObject) ==
    LET t == getReplicationTargets(object)
    IN  IF t.err # "" THEN [ok |-> FALSE, err |-> t.err]
        ELSE [ok |-> \/ KeyOf(targetObject) \in Range(t.targets)
                     \/ \E i \in 1..Len(t.patterns) : Match(t.patterns[i], targetObject),
              err |-> ""]

\* ------------------------------------------------------------------- state
VARIABLES
    apiStore,         \* key -> object: the objects the API server holds
    objectStore,      \* key -> object: the object store, the informer's cache, which
                      \* the engine writes through (DOMAIN = the keys it holds)
    namespaceStore,   \* the namespace store: the set of known namespaces
    targetsFrom,      \* source key -> sequence of target keys (replicate-from)
    targetsTo,        \* source key -> sequence of target keys (replicate-to)
    watchedTargets,   \* source key -> sequence of declared literal target keys
    watchedPatterns,  \* source key -> sequence of declared target patterns
    versions,         \* key -> number of writes the API server accepted for the key
    queue,            \* the informer's queue: a sequence of [key, deltas], the
                      \* deltas of a key a sequence of [t, obj], t one of "add"
                      \* (added or updated), "sync" (resync), "del" (deleted)
    current,          \* the deltas of the key the informer popped last that are
                      \* not handled yet
    unreported,       \* history: the keys whose object the engine deleted last
                      \* without the informer reporting the deletion
    pendingNs,        \* namespaces whose add event is not handled yet
    calls,            \* the adapter calls of the last handler invocation, in order
    last,             \* the last step: [h |-> handler or "user", key |-> its object or namespace]
    removed,          \* history: the object of the delete event handled last (Nil
                      \* after another handler ran)
    synced,           \* history: the <<target, source, replicate-once-version>> of the
                      \* accepted calls that copied a payload under replicate-once
    toAdd,            \* the keys of the listed items that the informer has not passed
                      \* to the add handler yet
    event,            \* the handler the informer called last and the key of its object:
                      \* [type |-> "add", "update" or "delete" ("" at the start), key]
    listedItems,      \* history: listed key -> "listed" until the informer calls a
                      \* handler with the item, then "added", and "deleted" after the
                      \* delete handler
    failedSince,      \* history: whether the API server rejected an adapter call since
                      \* the last periodic resync was queued
    position,         \* where the goroutine of each controller is: "idle" between two
                      \* events, "handler" inside a handler, "fatal" once the runtime
                      \* has ended the process
    userOps,          \* number of changes the user may still make
    catalog,          \* the objects the user may write: a set of [key, ann]
    resyncs,          \* number of resyncs so far
    failures          \* number of adapter calls the API server may still reject

vars == << AllowAll, IgnoreUnknown, apiStore, objectStore, namespaceStore, targetsFrom,
           targetsTo, watchedTargets, watchedPatterns, versions, queue, current, unreported,
           pendingNs, calls, last, removed, synced, failedSince, toAdd, event, listedItems, position,
           userOps, catalog, resyncs, failures >>

\* the resource version "" and the empty payload
NoRV == [k |-> <<>>, n |-> 0]
Empty == [k |-> <<>>, n |-> 0]
NoAnn == [a \in {} |-> ""]
\* the nil object
Nil == [ns |-> "", name |-> "", ann |-> NoAnn, rv |-> NoRV, data |-> Empty]
IsNil(object) == object.ns = ""
Now == "now"

\* the queue with one more delta of the key: the informer keeps the deltas of
\* a key together, at the place of the first of them
Enqueue(q, key, delta) ==
    IF \E i \in 1..Len(q) : q[i].key = key
    THEN [i \in 1..Len(q) |->
            IF q[i].key = key THEN [q[i] EXCEPT !.deltas = Append(@, delta)] ELSE q[i]]
    ELSE Append(q, [key |-> key, deltas |-> << delta >>])

Queued(q) == { q[i].key : i \in 1..Len(q) }

\* The handlers run on a record es of the fields they read and write:
\*   store, tFrom, tTo, wT, wP   the object store and the four maps
\*   api, ver, q   the API server's objects and versions, the informer's queue
\*   silent        the keys of unreported
\*   calls, n      the adapter calls issued so far and their number
\*   failAt        the number of the adapter call the API server rejects (0: none)
\*   echo          whether the informer reports the engine's own deletions
\*   err           whether the last primitive returned an error
EngineState(store, q, failAt, echo) ==
    [ store |-> store, api |-> apiStore, ver |-> versions, q |-> q, silent |-> unreported,
      tFrom |-> targetsFrom, tTo |-> targetsTo,
      wT |-> watchedTargets, wP |-> watchedPatterns,
      calls |-> <<>>, n |-> 0, failAt |-> failAt, echo |-> echo, err |-> FALSE ]

Stored(es, key) == IF key \in DOMAIN es.store THEN es.store[key] ELSE Nil

\* one adapter call: the operation, the object submitted, the object the store
\* held under its key when the call was made (Nil: none), the source object the
\* call was made for (Nil: none), and whether the API server accepted it
Call(op, sourceObject, object, es, ok) ==
    [ op |-> op, key |-> KeyOf(object), by |-> KeyOf(sourceObject), ok |-> ok,
      obj |-> object, prev |-> Stored(es, KeyOf(object)), src |-> sourceObject ]

\* ----------------------------------------- adapter (replicate/configmaps.go)
\* a variant in which the engine does not write the result to the object store
WrittenNotStored(es, op, sourceObject, object) ==
    LET key == KeyOf(object)
        n   == IF key \in DOMAIN es.ver THEN es.ver[key] + 1 ELSE 1
        new == [object EXCEPT !.rv = [k |-> key, n |-> n]]
    IN  [es EXCEPT !.api = Put(es.api, key, new), !.ver = Put(es.ver, key, n),
                   !.q = Enqueue(es.q, key, [t |-> "add", obj |-> new]),
                   !.silent = es.silent \ {key},
                   !.n = es.n + 1, !.err = FALSE,
                   !.calls = Append(es.calls, Call(op, sourceObject, object, es, TRUE))]

\* the stores after the API server accepted the write of the object: the
\* server gives it a new resource version, the engine writes the result to the
\* object store, the informer queues the event of the change
Written(es, op, sourceObject, object) ==
    LET key == KeyOf(object)
        n   == IF key \in DOMAIN es.ver THEN es.ver[key] + 1 ELSE 1
        new == [object EXCEPT !.rv = [k |-> key, n |-> n]]
    IN  [es EXCEPT !.api = Put(es.api, key, new), !.ver = Put(es.ver, key, n),
                   !.store = Put(es.store, key, new),
                   !.q = Enqueue(es.q, key, [t |-> "add", obj |-> new]),
                   !.silent = es.silent \ {key},
                   !.n = es.n + 1, !.err = FALSE,
                   !.calls = Append(es.calls, Call(op, sourceObject, object, es, TRUE))]

Refused(es, op, sourceObject, object) ==
    [es EXCEPT !.n = es.n + 1, !.err = TRUE,
               !.calls = Append(es.calls, Call(op, sourceObject, object, es, FALSE))]

\* a variant that accepts the update of an object whatever its resource version
clientUpdateUnchecked(es, op, sourceObject, object) ==
    IF es.n + 1 # es.failAt /\ KeyOf(object) \in DOMAIN es.api
    THEN Written(es, op, sourceObject, object)
    ELSE Refused(es, op, sourceObject, object)

\* client Update(object): accepted when the API server holds the object with
\* the resource version of the submitted one
clientUpdate(es, op, sourceObject, object) ==
    LET key == KeyOf(object)
    IN  IF /\ es.n + 1 # es.failAt
           /\ key \in DOMAIN es.api
           /\ es.api[key].rv = object.rv
        THEN Written(es, op, sourceObject, object)
        ELSE Refused(es, op, sourceObject, object)

\* client Create(object): accepted when the API server holds no object of the key
clientCreate(es, op, sourceObject, object) ==
    IF es.n + 1 # es.failAt /\ KeyOf(object) \notin DOMAIN es.api
    THEN Written(es, op, sourceObject, object)
    ELSE Refused(es, op, sourceObject, object)

\* Update: the target with the source's payload and the given annotations
Update(es, object, sourceObject, annotations) ==
    clientUpdate(es, "update", sourceObject,
                 [object EXCEPT !.ann = annotations, !.data = sourceObject.data])

\* Clear: the target with no payload and the given annotations
Clear(es, object, annotations) ==
    clientUpdate(es, "clear", Nil, [object EXCEPT !.ann = annotations, !.data = Empty])

\* a variant that installs the payload of the source whatever the data object
InstallSourcePayload(es, meta, sourceObject, dataObject) ==
    LET object == [meta EXCEPT !.data = sourceObject.data]
    IN  IF meta.rv = NoRV
        THEN clientCreate(es, "install", sourceObject, object)
        ELSE clientUpdate(es, "install", sourceObject, object)

\* Install: creates the object of the given meta when the meta has no resource
\* version, updates it otherwise; the payload is the data object's, or empty
Install(es, meta, sourceObject, dataObject) ==
    LET object == [meta EXCEPT !.data = IF IsNil(dataObject) THEN Empty ELSE dataObject.data]
    IN  IF meta.rv = NoRV
        THEN clientCreate(es, "install", sourceObject, object)
        ELSE clientUpdate(es, "install", sourceObject, object)

\* Delete: with the object's resource version as precondition; the engine
\* removes the object from the object store on success. The informer's queue
\* drops the event of the deletion of a key that it holds no delta of and
\* that the object store does not hold any more, when es.echo is FALSE.
Delete(es, by, object) ==
    LET key == KeyOf(object)
        ok  == /\ es.n + 1 # es.failAt
               /\ key \in DOMAIN es.api
               /\ es.api[key].rv = object.rv
        reported == es.echo \/ key \in Queued(es.q)
    IN  IF ok
        THEN [es EXCEPT !.api = Drop(es.api, key), !.store = Drop(es.store, key),
                        !.q = IF reported
                              THEN Enqueue(es.q, key, [t |-> "del", obj |-> es.api[key]])
                              ELSE es.q,
                        !.silent = IF reported THEN es.silent ELSE es.silent \cup {key},
                        !.n = es.n + 1, !.err = FALSE,
                        !.calls = Append(es.calls, Call("delete", by, object, es, TRUE))]
        ELSE Refused(es, "delete", by, object)

\* ------------------------------------------------ engine: store access
\* [object, exists, err]
getFromStore(es, key) ==
    IF key \notin DOMAIN es.store THEN [object |-> Nil, exists |-> FALSE, err |-> FALSE]
    ELSE IF ~IgnoreUnknown /\ UnknownAnnotations(es.store[key].ann) # {}
    THEN [object |-> Nil, exists |-> FALSE, err |-> TRUE]
    ELSE [object |-> es.store[key], exists |-> TRUE, err |-> FALSE]

\* [object, err]
requireFromStore(es, key) ==
    LET got == getFromStore(es, key)
    IN  [object |-> got.object, err |-> got.err \/ ~got.exists]

Fail(es) == [es EXCEPT !.err = TRUE]
Pass(es) == [es EXCEPT !.err = FALSE]

\* ------------------------------------------------ engine: primitives
doDeleteObject(es, by, object) == Delete(es, by, object)

\* a variant that deletes the object of the key whoever created it
deleteObjectUnchecked(es, key, sourceObject) ==
    LET got == requireFromStore(es, key)
    IN  IF got.err THEN Fail(es) ELSE doDeleteObject(es, sourceObject, got.object)

\* deletes the object of the key when the source created it
deleteObject(es, key, sourceObject) ==
    LET got == requireFromStore(es, key)
    IN  IF got.err THEN Fail(es)
        ELSE IF ~isReplicatedBy(got.object, sourceObject).ok THEN Fail(es)
        ELSE doDeleteObject(es, sourceObject, got.object)

\* a variant that clears the object whether it was replicated or not
doClearObjectAlways(es, object) ==
    Clear(es, object,
          [a \in (DOMAIN object.ann \cup {ReplicatedAtAnnotation})
                    \ {ReplicatedFromVersionAnnotation, ReplicateOnceVersionAnnotation} |->
              IF a = ReplicatedAtAnnotation THEN Now ELSE object.ann[a]])

doClearObject(es, object) ==
    IF ~Has(object.ann, ReplicatedFromVersionAnnotation) THEN Pass(es)
    ELSE LET keep == (DOMAIN object.ann \cup {ReplicatedAtAnnotation})
                        \ {ReplicatedFromVersionAnnotation, ReplicateOnceVersionAnnotation}
             annotations == [a \in keep |-> IF a = ReplicatedAtAnnotation THEN Now
                                            ELSE object.ann[a]]
         IN Clear(es, object, annotations)

\* [es, ok]: ok when the object of the key still refers to the source
clearObject(es, key, sourceObject) ==
    LET got == requireFromStore(es, key)
    IN  IF got.err THEN [es |-> Fail(es), ok |-> FALSE]
        ELSE IF ~annotationRefersTo(got.object, ReplicateFromAnnotation, sourceObject)
        THEN [es |-> Pass(es), ok |-> FALSE]
        ELSE [es |-> doClearObject(es, got.object), ok |-> TRUE]

\* f overridden by g
Merge(f, g) == [a \in DOMAIN f \cup DOMAIN g |-> IF a \in DOMAIN g THEN g[a] ELSE f[a]]

\* a variant that replicates without asking the source's permission
replicateObjectUnasked(es, object, sourceObject) ==
    Update(es, object, sourceObject,
           Merge(object.ann, (ReplicatedAtAnnotation :> Now)
                               @@ (ReplicatedFromVersionAnnotation :> sourceObject.rv)))

\* replicates a resource that has a replicate-from annotation from its source
replicateObject(es, object, sourceObject) ==
    LET allowed == isReplicationAllowed(object, sourceObject)
        needs   == needsDataUpdate(object, sourceObject)
        dom == (DOMAIN object.ann
                  \cup {ReplicatedAtAnnotation, ReplicatedFromVersionAnnotation})
        withOnce == IF Has(sourceObject.ann, ReplicateOnceVersionAnnotation)
                    THEN dom \cup {ReplicateOnceVersionAnnotation}
                    ELSE dom \ {ReplicateOnceVersionAnnotation}
        annotations ==
            [a \in withOnce |->
                IF a = ReplicatedAtAnnotation THEN Now
                ELSE IF a = ReplicatedFromVersionAnnotation THEN sourceObject.rv
                ELSE IF a = ReplicateOnceVersionAnnotation
                THEN sourceObject.ann[ReplicateOnceVersionAnnotation]
                ELSE object.ann[a]]
    IN  IF ~allowed.ok /\ allowed.nok THEN doClearObject(es, object)
        ELSE IF ~allowed.ok THEN Fail(es)
        ELSE IF ~needs.ok THEN (IF needs.err = "" THEN Pass(es) ELSE Fail(es))
        ELSE Update(es, object, sourceObject, annotations)

\* the annotations of the source that the given set names, as a map
Copied(sourceObject, names) ==
    [a \in { x \in names : Has(sourceObject.ann, x) } |-> sourceObject.ann[a]]

\* replicates a resource that has a replicate-to annotation to its target;
\* either the target key or the target object is passed (Nil / <<>> otherwise)
installObject(es, target, targetObject, sourceObject) ==
    LET passed == ~IsNil(targetObject)
        got    == getFromStore(es, target)
        tObj   == IF passed THEN targetObject ELSE got.object
        tKey   == IF passed THEN KeyOf(targetObject) ELSE target
        hasTarget == ~IsNil(tObj)
        by     == KeyOf(sourceObject)
        from   == resolveAnnotation(sourceObject, ReplicateFromAnnotation)
        rv     == IF hasTarget THEN tObj.rv ELSE NoRV
        \* the meta of the push+pull install
        fromMeta ==
            [ ns |-> tKey[1], name |-> tKey[2], rv |-> rv, data |-> Empty,
              ann |-> Merge( (ReplicatedByAnnotation :> by)
                               @@ (ReplicateFromAnnotation :> from.val),
                             Copied(sourceObject, {ReplicateOnceAnnotation}) ) ]
        needsFrom == needsFromAnnotationsUpdate(tObj, sourceObject)
        \* the meta of the install that only refreshes the allowed annotations
        allowedNames == {ReplicationAllowedAnnotation, ReplicationAllowedNsAnnotation}
        allowedMeta ==
            [tObj EXCEPT !.ann =
                Merge( [a \in DOMAIN tObj.ann \ allowedNames |-> tObj.ann[a]],
                       Copied(sourceObject, allowedNames) )]
        needs        == needsDataUpdate(tObj, sourceObject)
        needsAllowed == needsAllowedAnnotationsUpdate(tObj, sourceObject)
        skipErr == IF ~needs.once THEN TRUE
                   ELSE IF needsAllowed.err # "" THEN TRUE
                   ELSE ~needsAllowed.ok
        \* the meta of the install of the source's data
        dataMeta ==
            [ ns |-> tKey[1], name |-> tKey[2], rv |-> rv, data |-> Empty,
              ann |-> Merge( (ReplicatedAtAnnotation :> Now)
                               @@ (ReplicatedByAnnotation :> by)
                               @@ (ReplicatedFromVersionAnnotation :> sourceObject.rv),
                             Copied(sourceObject, {ReplicateOnceVersionAnnotation}
                                                    \cup allowedNames) ) ]
    IN  IF ~passed /\ Len(target) < 2 THEN Fail(es)
        ELSE IF ~passed /\ got.err THEN Fail(es)
        ELSE IF ~passed /\ got.exists /\ ~isReplicatedBy(got.object, sourceObject).ok
        THEN Fail(es)
        ELSE IF from.ok
        THEN IF hasTarget /\ needsFrom.err # "" THEN Fail(es)
             ELSE IF hasTarget /\ ~needsFrom.ok THEN Pass(es)
             ELSE Install(es, fromMeta, sourceObject, tObj)
        ELSE IF hasTarget /\ ~Has(tObj.ann, ReplicateFromAnnotation) /\ ~needs.ok
        THEN IF skipErr THEN Fail(es)
             ELSE Install(es, allowedMeta, sourceObject, tObj)
        ELSE Install(es, dataMeta, sourceObject, sourceObject)

\* ------------------------------------------------ engine: ObjectAdded
\* a variant that keeps every replica registered, whatever the store holds
updateLoopKeepingAll(es, object, replicas, kept) == [es |-> es, kept |-> replicas]

\* a variant that replicates to every registered replica it can load
RECURSIVE updateLoopUnchecked(_, _, _, _)
updateLoopUnchecked(es, object, replicas, kept) ==
    IF replicas = <<>> THEN [es |-> es, kept |-> kept]
    ELSE LET got == requireFromStore(es, Head(replicas))
         IN IF got.err THEN updateLoopUnchecked(es, object, Tail(replicas), kept)
            ELSE updateLoopUnchecked(replicateObject(es, got.object, object), object,
                                     Tail(replicas), Append(kept, Head(replicas)))

\* the loop of updateDependents over the sorted replicas: [es, kept]
RECURSIVE updateLoop(_, _, _, _)
updateLoop(es, object, replicas, kept) ==
    IF replicas = <<>> THEN [es |-> es, kept |-> kept]
    ELSE LET dependentKey == Head(replicas)
             got  == requireFromStore(es, dependentKey)
             from == resolveAnnotation(got.object, ReplicateFromAnnotation)
         IN IF got.err THEN updateLoop(es, object, Tail(replicas), kept)
            ELSE IF ~from.ok \/ from.val # KeyOf(object)
            THEN updateLoop(es, object, Tail(replicas), kept)
            ELSE updateLoop(replicateObject(es, got.object, object), object,
                            Tail(replicas), Append(kept, dependentKey))

\* a variant that leaves the dependents of the object as they are
updateDependentsSkipped(es, object, replicas) == es

\* updates the targets that depend on the object and the list of those that still do
updateDependents(es, object, replicas) ==
    LET r   == updateLoop(es, object, SortDedup(replicas), <<>>)
        key == KeyOf(object)
    IN  IF r.kept # <<>> THEN [r.es EXCEPT !.tFrom = Put(r.es.tFrom, key, r.kept)]
        ELSE [r.es EXCEPT !.tFrom = Drop(r.es.tFrom, key)]

\* a variant that deletes every old target, whether still named or not
RECURSIVE cleanupLoopAll(_, _, _, _)
cleanupLoopAll(es, object, oldTargets, t) ==
    IF oldTargets = <<>> THEN es
    ELSE cleanupLoopAll(deleteObject(es, Head(oldTargets), object), object,
                        Tail(oldTargets), t)

\* deletes the old targets that the new targets and patterns do not name any more
RECURSIVE cleanupLoop(_, _, _, _)
cleanupLoop(es, object, oldTargets, t) ==
    IF oldTargets = <<>> THEN es
    ELSE LET target == Head(oldTargets)
             still  == \/ target \in Range(t.targets)
                       \/ \E i \in 1..Len(t.patterns) : MatchString(t.patterns[i], target)
         IN cleanupLoop(IF still THEN es ELSE deleteObject(es, target, object),
                        object, Tail(oldTargets), t)

RECURSIVE installLoop(_, _, _)
installLoop(es, targets, object) ==
    IF targets = <<>> THEN es
    ELSE installLoop(installObject(es, Head(targets), Nil, object), Tail(targets), object)

SelectInSeq(seq, Test(_)) == SelectSeq(seq, Test)

\* a variant that records the targets of the source and installs none of them
pushTargetsWithoutInstall(es, object, t) ==
    LET key == KeyOf(object)
        es1 == IF Len(t.targets) > 0
               THEN [es EXCEPT !.wT = Put(es.wT, key, t.targets)] ELSE es
    IN  IF Len(t.patterns) > 0
        THEN [es1 EXCEPT !.wP = Put(es1.wP, key, t.patterns)] ELSE es1

\* the push part of ObjectAdded, for an object with non-nil targets or patterns
pushTargets(es, object, t) ==
    LET key == KeyOf(object)
        nsExists(target) == target[1] \in namespaceStore
        literal == SelectInSeq(t.targets, nsExists)
        matched == UNION { Targets(t.patterns[i], namespaceStore) : i \in 1..Len(t.patterns) }
        existingTargets == literal \o SortedSeq(matched \ (Range(literal) \cup {key}))
        es1 == IF Len(t.targets) > 0
               THEN [es EXCEPT !.wT = Put(es.wT, key, t.targets)] ELSE es
        es2 == IF Len(t.patterns) > 0
               THEN [es1 EXCEPT !.wP = Put(es1.wP, key, t.patterns)] ELSE es1
    IN  IF Len(existingTargets) > 0
        THEN installLoop([es2 EXCEPT !.tTo = Put(es2.tTo, key, existingTargets)],
                         existingTargets, object)
        ELSE es2

\* the pull part of ObjectAdded
pullSource(es, object) ==
    LET key  == KeyOf(object)
        from == resolveAnnotation(object, ReplicateFromAnnotation)
        old  == IF from.val \in DOMAIN es.tFrom THEN es.tFrom[from.val] ELSE <<>>
        es1  == [es EXCEPT !.tFrom = Put(es.tFrom, from.val, Append(old, key))]
        got  == getFromStore(es1, from.val)
    IN  IF ~from.ok THEN es
        ELSE IF got.err THEN es1
        ELSE IF ~got.exists THEN doClearObject(es1, object)
        ELSE replicateObject(es1, object, got.object)

\* a variant that deletes every object that carries replicated-by
replicatedByDeleting(es, object) == doDeleteObject(es, Nil, object)

\* the part of ObjectAdded for an object that carries replicated-by, and what
\* follows it: the object is deleted, or refreshed and then treated as a puller
replicatedBy(es, object) ==
    LET key == KeyOf(object)
        val == object.ann[ReplicatedByAnnotation]
        got == getFromStore(es, val)
        to  == isReplicatedTo(got.object, object)
        es1 == installObject(es, <<>>, object, got.object)
        re  == requireFromStore(es1, key)
    IN  IF got.err THEN es
        ELSE IF got.exists /\ to.err # "" THEN es
        ELSE IF ~got.exists \/ ~to.ok THEN doDeleteObject(es, Nil, object)
        ELSE IF es1.err THEN es1
        ELSE IF re.err THEN es1
        ELSE pullSource(es1, re.object)

\* a variant that keeps the recorded targets of an object that names none
ObjectAddedKeepingTargets(es, object) ==
    LET key == KeyOf(object)
        t   == getReplicationTargets(object)
        es1 == IF key \in DOMAIN es.tTo
               THEN cleanupLoop(es, object, SortDedup(es.tTo[key]), t) ELSE es
        es3 == IF key \in DOMAIN es1.tFrom
               THEN updateDependents(es1, object, es1.tFrom[key]) ELSE es1
    IN  IF UnknownAnnotations(object.ann) # {} /\ ~IgnoreUnknown THEN es
        ELSE IF t.err # "" THEN es
        ELSE IF Has(object.ann, ReplicatedByAnnotation) THEN replicatedBy(es3, object)
        ELSE IF ~t.isNil THEN pushTargets(es3, object, t)
        ELSE pullSource(es3, object)

ObjectAdded(es, object) ==
    LET key == KeyOf(object)
        t   == getReplicationTargets(object)
        es1 == IF key \in DOMAIN es.tTo
               THEN cleanupLoop(es, object, SortDedup(es.tTo[key]), t) ELSE es
        es2 == [es1 EXCEPT !.tTo = Drop(es1.tTo, key), !.wT = Drop(es1.wT, key),
                           !.wP = Drop(es1.wP, key)]
        es3 == IF key \in DOMAIN es2.tFrom
               THEN updateDependents(es2, object, es2.tFrom[key]) ELSE es2
    IN  IF UnknownAnnotations(object.ann) # {} /\ ~IgnoreUnknown THEN es
        ELSE IF t.err # "" THEN es
        ELSE IF Has(object.ann, ReplicatedByAnnotation) THEN replicatedBy(es3, object)
        ELSE IF ~t.isNil THEN pushTargets(es3, object, t)
        ELSE pullSource(es3, object)

\* ------------------------------------------------ engine: NamespaceAdded
\* a variant that replicates nothing to the namespace
replicateToNamespaceSkipped(es, object, namespace) == es

\* replicates a source to a namespace, using the replicate-to annotations
replicateToNamespace(es, object, namespace) ==
    LET key == KeyOf(object)
        t   == getReplicationTargets(object)
        existingTargets ==
            ( { target \in Range(t.targets) : target[1] = namespace }
              \cup { MatchNamespace(t.patterns[i], namespace) : i \in 1..Len(t.patterns) } )
            \ { <<>>, key }
        new == SortedSeq(existingTargets)
        currentTargets == IF key \in DOMAIN es.tTo THEN es.tTo[key] ELSE <<>>
        es1 == installLoop(es, new, object)
    IN  IF Has(object.ann, ReplicatedByAnnotation) THEN es
        ELSE IF t.err # "" THEN es
        ELSE IF existingTargets = {} THEN es
        ELSE [es1 EXCEPT !.tTo = Put(es1.tTo, key, currentTargets \o new)]

\* the sources of the watched maps that the test selects
Watching(es, TestTarget(_), TestPattern(_)) ==
    { source \in DOMAIN es.wT : \E i \in 1..Len(es.wT[source]) : TestTarget(es.wT[source][i]) }
    \cup
    { source \in DOMAIN es.wP : \E i \in 1..Len(es.wP[source]) : TestPattern(es.wP[source][i]) }

\* lets the sources of todo replicate to the namespace, in the given order
RECURSIVE namespaceLoop(_, _, _, _)
namespaceLoop(es, order, todo, namespace) ==
    IF order = <<>> THEN es
    ELSE LET source == Head(order)
             got == getFromStore(es, source)
             next == IF source \notin todo THEN es
                     ELSE IF got.err THEN es
                     ELSE IF ~got.exists
                     THEN [es EXCEPT !.wT = Drop(es.wT, source), !.wP = Drop(es.wP, source)]
                     ELSE replicateToNamespace(es, got.object, namespace)
         IN namespaceLoop(next, Tail(order), todo, namespace)

\* order: the order in which Go happens to iterate the map of the sources
NamespaceAdded(es, namespace, order) ==
    LET inNs(target) == target[1] = namespace
        matches(pattern) == MatchNamespace(pattern, namespace) # <<>>
    IN  namespaceLoop(es, order, Watching(es, inNs, matches), namespace)

\* ------------------------------------------------ engine: ObjectDeleted
RECURSIVE deleteLoop(_, _, _)
deleteLoop(es, targets, object) ==
    IF targets = <<>> THEN es
    ELSE deleteLoop(deleteObject(es, Head(targets), object), Tail(targets), object)

\* a variant that clears no dependent and keeps none registered
clearLoopForgetting(es, object, replicas, kept) == [es |-> es, kept |-> <<>>]

\* [es, kept]
RECURSIVE clearLoop(_, _, _, _)
clearLoop(es, object, replicas, kept) ==
    IF replicas = <<>> THEN [es |-> es, kept |-> kept]
    ELSE LET r == clearObject(es, Head(replicas), object)
         IN clearLoop(r.es, object, Tail(replicas),
                      IF r.ok THEN Append(kept, Head(replicas)) ELSE kept)

\* a variant that hands the vacated key to no source
handOffLoopSkipped(es, order, todo, object) == es

\* a variant that goes on with the next source after an install
RECURSIVE handOffLoopForAll(_, _, _, _)
handOffLoopForAll(es, order, todo, object) ==
    IF order = <<>> THEN es
    ELSE LET source == Head(order)
             got == getFromStore(es, source)
             to  == isReplicatedTo(got.object, object)
         IN IF source \notin todo \/ got.err \/ ~got.exists \/ to.err # "" \/ ~to.ok
            THEN handOffLoopForAll(es, Tail(order), todo, object)
            ELSE handOffLoopForAll(installObject(es, KeyOf(object), Nil, got.object),
                                   Tail(order), todo, object)

\* installs the vacated key for the first source of the order that still wants it
RECURSIVE handOffLoop(_, _, _, _)
handOffLoop(es, order, todo, object) ==
    IF order = <<>> THEN es
    ELSE LET source == Head(order)
             got == getFromStore(es, source)
             to  == isReplicatedTo(got.object, object)
         IN IF source \notin todo THEN handOffLoop(es, Tail(order), todo, object)
            ELSE IF got.err THEN handOffLoop(es, Tail(order), todo, object)
            ELSE IF ~got.exists
            THEN handOffLoop([es EXCEPT !.wT = Drop(es.wT, source),
                                        !.wP = Drop(es.wP, source)],
                             Tail(order), todo, object)
            ELSE IF to.err # "" THEN handOffLoop(es, Tail(order), todo, object)
            ELSE IF to.ok THEN installObject(es, KeyOf(object), Nil, got.object)
            ELSE handOffLoop(es, Tail(order), todo, object)

\* a variant that keeps watching the targets of the deleted object
ObjectDeletedKeepingWatch(es, object, order) ==
    LET key == KeyOf(object)
        es1 == IF key \in DOMAIN es.tTo THEN deleteLoop(es, es.tTo[key], object) ELSE es
        es2 == [es1 EXCEPT !.tTo = Drop(es1.tTo, key)]
        r   == clearLoop(es2, object, SortDedup(es2.tFrom[key]), <<>>)
        es3 == IF key \in DOMAIN es2.tFrom THEN r.es ELSE es2
        isKey(target) == target = key
        matches(pattern) == Match(pattern, object)
    IN  handOffLoop(es3, order, Watching(es3, isKey, matches) \ {key}, object)

\* a variant that leaves the replicas of the deleted object alone
ObjectDeletedKeepingReplicas(es, object, order) ==
    LET key == KeyOf(object)
    IN  [es EXCEPT !.tTo = Drop(es.tTo, key), !.wT = Drop(es.wT, key),
                   !.wP = Drop(es.wP, key)]

ObjectDeleted(es, object, order) ==
    LET key == KeyOf(object)
        es1 == IF key \in DOMAIN es.tTo THEN deleteLoop(es, es.tTo[key], object) ELSE es
        es2 == [es1 EXCEPT !.tTo = Drop(es1.tTo, key), !.wT = Drop(es1.wT, key),
                           !.wP = Drop(es1.wP, key)]
        r   == clearLoop(es2, object, SortDedup(es2.tFrom[key]), <<>>)
        es3 == IF key \notin DOMAIN es2.tFrom THEN es2
               ELSE IF r.kept # <<>> THEN [r.es EXCEPT !.tFrom = Put(r.es.tFrom, key, r.kept)]
               ELSE [r.es EXCEPT !.tFrom = Drop(r.es.tFrom, key)]
        isKey(target) == target = key
        matches(pattern) == Match(pattern, object)
    IN  handOffLoop(es3, order, Watching(es3, isKey, matches), object)

\* ------------------------------------------------------------- the cluster
\* what the user may write
S1 == <<"s", "src">>
S2 == <<"s", "src2">>
T1 == <<"t1", "dst">>
T2 == <<"t2", "dst">>
Entry(key, ann) == [key |-> key, ann |-> ann]
Item(ns, name) == <<ns, name>>

PushCatalog ==
    { Entry(S1, (ReplicateToAnnotation :> << Item("t1", "dst") >>)),
      Entry(S1, (ReplicateToAnnotation :> << Item("t[0-9]+", "dst") >>)),
      Entry(S1, (ReplicateToAnnotation :> << Item("t2", "dst") >>)),
      Entry(S1, NoAnn),
      Entry(S2, (ReplicateToAnnotation :> << <<"dst">> >>)
                  @@ (ReplicateToNsAnnotation :> << <<"t1">> >>)),
      Entry(T1, NoAnn),
      Entry(T1, (ReplicatedByAnnotation :> S1)),
      Entry(S1, (ReplicateToAnnotation :> << Item("t1", "dst") >>)
                  @@ (ReplicateOnceAnnotation :> "true")) }

BothCatalog ==
    { Entry(S1, (ReplicateToAnnotation :> << Item("t1", "dst") >>)
                  @@ (ReplicateFromAnnotation :> S2)),
      Entry(S1, (ReplicateToAnnotation :> << Item("t1", "dst") >>)),
      Entry(S2, (ReplicationAllowedAnnotation :> "true")),
      Entry(S2, NoAnn),
      Entry(T1, NoAnn) }

\* two sources that want the key of a user's object, one of them by a pattern,
\* and a source that pushes what it pulls
HandOffCatalog ==
    { Entry(T1, NoAnn),
      Entry(S1, (ReplicateToAnnotation :> << Item("t1", "dst") >>)),
      Entry(S2, (ReplicateToAnnotation :> << <<"dst">> >>)
                  @@ (ReplicateToNsAnnotation :> << <<"t[0-9]+">> >>)),
      Entry(S1, (ReplicateToAnnotation :> << Item("t1", "dst") >>)
                  @@ (ReplicateFromAnnotation :> S2)) }

\* sources whose namespace expression matches no namespace of the start, one
\* of them with two target names, and a user's object in the namespace to come
WatchCatalog ==
    { Entry(S1, (ReplicateToAnnotation :> << Item("t2|x", "dst") >>)),
      Entry(S2, (ReplicateToAnnotation :> << <<"dst">>, <<"src">> >>)
                  @@ (ReplicateToNsAnnotation :> << <<"t2|x">> >>)),
      Entry(T2, NoAnn) }

\* a source that is pushed once to two targets, one of them in a namespace to
\* come, without and with a replicate-once-version
OnceCatalog ==
    { Entry(S1, (ReplicateToAnnotation :> << Item("t1", "dst"), Item("t2", "dst") >>)
                  @@ (ReplicateOnceAnnotation :> "true")),
      Entry(S1, (ReplicateToAnnotation :> << Item("t1", "dst"), Item("t2", "dst") >>)
                  @@ (ReplicateOnceAnnotation :> "true")
                  @@ (ReplicateOnceVersionAnnotation :> "v2")) }

\* two targets that pull from a source that allows it
RecreateCatalog ==
    { Entry(T1, (ReplicateFromAnnotation :> S1)),
      Entry(<<"t1", "src">>, (ReplicateFromAnnotation :> S1)),
      Entry(S1, (ReplicationAllowedAnnotation :> "true")) }

\* objects with ill-formed annotations next to their well-formed versions,
\* and a target that names itself as its source
IllFormedCatalog ==
    { Entry(T1, (ReplicateFromAnnotation :> S1)),
      Entry(S1, (ReplicationAllowedAnnotation :> "true")),
      Entry(S1, (ReplicationAllowedAnnotation :> "maybe")),
      Entry(S1, (ReplicationAllowedAnnotation :> "true")
                  @@ (ReplicateOnceAnnotation :> "maybe")),
      Entry(S2, (ReplicateToAnnotation :> << Item("t1", "dst") >>)),
      Entry(S2, (ReplicateToAnnotation :> << Item("t1", "dst") >>)
                  @@ (ReplicateOnceAnnotation :> "maybe")),
      Entry(S2, (ReplicateToAnnotation :> << Item("(", "dst") >>)),
      Entry(S2, (ReplicateToAnnotation :> << <<"Dst">> >>)),
      Entry(T1, (ReplicateFromAnnotation :> T1)) }

\* a pushing source, a pulling target and the source it pulls from, each with
\* and without an annotation that the engine does not know
UnknownCatalog ==
    { Entry(S1, (ReplicateToAnnotation :> << Item("t1", "dst") >>)),
      Entry(S1, (ReplicateToAnnotation :> << Item("t1", "src") >>)
                  @@ ("unknown-annotation" :> "x")),
      Entry(S1, ("unknown-annotation" :> "x")),
      Entry(T2, (ReplicateFromAnnotation :> S2)),
      Entry(T2, (ReplicateFromAnnotation :> S2) @@ ("unknown-annotation" :> "x")),
      Entry(S2, (ReplicationAllowedAnnotation :> "true")),
      Entry(S2, (ReplicationAllowedAnnotation :> "true") @@ ("unknown-annotation" :> "x")) }

\* a pulling target whose source pulls from another source, with a well-formed
\* and an ill-formed permission
ChainCatalog ==
    { Entry(T1, (ReplicateFromAnnotation :> S1)),
      Entry(S1, (ReplicationAllowedAnnotation :> "true")),
      Entry(S1, (ReplicationAllowedAnnotation :> "true") @@ (ReplicateFromAnnotation :> S2)),
      Entry(S1, (ReplicationAllowedAnnotation :> "maybe") @@ (ReplicateFromAnnotation :> S2)),
      Entry(S2, (ReplicationAllowedAnnotation :> "true")) }

\* a source that is pushed once and changes its permission annotations, with a
\* well-formed and an ill-formed replicate-once
AllowedCatalog ==
    { Entry(S1, (ReplicateToAnnotation :> << Item("t1", "dst") >>)
                  @@ (ReplicateOnceAnnotation :> "true")
                  @@ (ReplicationAllowedAnnotation :> "true")),
      Entry(S1, (ReplicateToAnnotation :> << Item("t1", "dst") >>)
                  @@ (ReplicateOnceAnnotation :> "true")),
      Entry(S1, (ReplicateToAnnotation :> << Item("t1", "dst") >>)
                  @@ (ReplicateOnceAnnotation :> "true")
                  @@ (ReplicationAllowedNsAnnotation :> << "t1" >>)),
      Entry(S1, (ReplicateToAnnotation :> << Item("t1", "dst") >>)
                  @@ (ReplicateOnceAnnotation :> "maybe")
                  @@ (ReplicationAllowedAnnotation :> "false")) }

\* a source whose pattern and whose namespace expression match its own key,
\* the same source naming itself in replicated-by, and an object that carries
\* replicated-by together with replicate-to
SelfCatalog ==
    { Entry(S1, (ReplicateToAnnotation :> << Item(".*", "src") >>)),
      Entry(S1, (ReplicateToNsAnnotation :> << <<".*">> >>)),
      Entry(S1, (ReplicatedByAnnotation :> S1)
                  @@ (ReplicateToAnnotation :> << Item(".*", "src") >>)),
      Entry(<<"t1", "src">>, (ReplicatedByAnnotation :> S1)
                               @@ (ReplicateToAnnotation :> << Item("t1", "dst") >>)) }

PullCatalog ==
    { Entry(T1, (ReplicateFromAnnotation :> S1)),
      Entry(T1, (ReplicateFromAnnotation :> S1) @@ (ReplicateOnceAnnotation :> "true")),
      Entry(S1, (ReplicationAllowedAnnotation :> "true")),
      Entry(S1, (ReplicationAllowedAnnotation :> "false")),
      Entry(S1, (ReplicationAllowedAnnotation :> "maybe")),
      Entry(S1, (ReplicationAllowedNsAnnotation :> << "t[0-9]+" >>)),
      Entry(S1, (ReplicationAllowedAnnotation :> "true")
                  @@ (ReplicateOnceAnnotation :> "true")),
      Entry(S1, NoAnn) }

InitialNamespaces == { "s", "t1" }

\* no handler was called yet
NoEvent == [type |-> "", key |-> <<>>]

\* the goroutines of the two controllers, both between two events
Idle == [objectController |-> "idle", namespaceController |-> "idle"]

InitWith(c, allowAll, ignoreUnknown, rejections, changes) ==
    /\ AllowAll = allowAll
    /\ IgnoreUnknown = ignoreUnknown
    /\ catalog = c
    /\ apiStore = [k \in {} |-> Nil]
    /\ objectStore = [k \in {} |-> Nil]
    /\ namespaceStore = InitialNamespaces
    /\ targetsFrom = [k \in {} |-> <<>>]
    /\ targetsTo = [k \in {} |-> <<>>]
    /\ watchedTargets = [k \in {} |-> <<>>]
    /\ watchedPatterns = [k \in {} |-> <<>>]
    /\ versions = [k \in {} |-> 0]
    /\ queue = <<>>
    /\ current = <<>>
    /\ unreported = {}
    /\ pendingNs = {}
    /\ calls = <<>>
    /\ last = [h |-> "init", key |-> <<>>, n |-> 0]
    /\ removed = Nil
    /\ synced = {}
    /\ failedSince = FALSE
    /\ toAdd = {}
    /\ event = NoEvent
    /\ listedItems = [k \in {} |-> ""]
    /\ position = Idle
    /\ userOps = changes
    /\ resyncs = 0
    /\ failures = rejections

\* the engine as main.go configures it by default, in a cluster of pushing sources
Init == InitWith(PushCatalog, FALSE, TRUE, MaxFailures, MaxUserOps)
\* the same engine in a cluster of pulling targets
InitPull == InitWith(PullCatalog, FALSE, TRUE, MaxFailures, MaxUserOps)
\* the same engine in a cluster of sources that push and pull
InitBoth == InitWith(BothCatalog, FALSE, TRUE, MaxFailures, MaxUserOps)

\* the same engine in a cluster where sources wait for an occupied key
InitHandOff == InitWith(HandOffCatalog, FALSE, TRUE, 0, MaxUserOps + 1)

\* the same engine in a cluster of sources that wait for a namespace
InitWatch == InitWith(WatchCatalog, FALSE, TRUE, MaxFailures, MaxUserOps)

\* the same engine in a cluster of a source that is pushed once
InitOnce == InitWith(OnceCatalog, FALSE, TRUE, MaxFailures, MaxUserOps)

\* the same engine in a cluster where the source can be created, deleted and
\* created again while its targets stay
InitRecreate == InitWith(RecreateCatalog, FALSE, TRUE, MaxFailures, MaxUserOps + 1)

\* the same engine in a cluster whose objects may carry ill-formed annotations
InitIllFormed == InitWith(IllFormedCatalog, FALSE, TRUE, MaxFailures, MaxUserOps)

\* the engine started without --ignore-unknown
InitUnknown == InitWith(UnknownCatalog, FALSE, FALSE, MaxFailures, MaxUserOps)

\* the same engine in a cluster where the source of a target is itself a target
InitChain == InitWith(ChainCatalog, FALSE, TRUE, MaxFailures, MaxUserOps)

\* the same engine in a cluster of a source that changes its permissions
InitAllowed == InitWith(AllowedCatalog, FALSE, TRUE, MaxFailures, MaxUserOps)

\* the same engine in a cluster where objects carry replicated-by on their own
InitSelf == InitWith(SelfCatalog, FALSE, TRUE, MaxFailures, MaxUserOps)

\* the record of a step in last; n tells a step from the step before it when
\* both are the same handler on the same key
Step(h, key) ==
    [ h |-> h, key |-> key,
      n |-> IF last.h = h /\ last.key = key THEN 1 - last.n ELSE 0 ]

Config == << AllowAll, IgnoreUnknown, catalog >>
Graph  == << targetsFrom, targetsTo, watchedTargets, watchedPatterns >>

NextVersion(key) == IF key \in DOMAIN versions THEN versions[key] + 1 ELSE 1

Informer == << queue, current, unreported >>
Listing == << toAdd, event, listedItems >>
ApiNamespaces == namespaceStore \cup pendingNs

\* the user creates or replaces an object; the informer queues the event
UserApply ==
    \E e \in catalog :
        LET key == e.key
            rv  == [k |-> key, n |-> NextVersion(key)]
            new == [ns |-> key[1], name |-> key[2], ann |-> e.ann, rv |-> rv, data |-> rv]
        IN  /\ userOps > 0
            /\ key[1] \in ApiNamespaces
            /\ apiStore' = Put(apiStore, key, new)
            /\ versions' = Put(versions, key, rv.n)
            /\ queue' = Enqueue(queue, key, [t |-> "add", obj |-> new])
            /\ unreported' = unreported \ {key}
            /\ userOps' = userOps - 1
            /\ calls' = <<>>
            /\ last' = Step("UserApply", key)
            /\ UNCHANGED << Config, Graph, Listing, removed, synced, failedSince, position,
                            objectStore, namespaceStore, current, pendingNs,
                            resyncs, failures >>

\* the user changes the payload of an object and keeps its annotations
UserTouch ==
    \E key \in DOMAIN apiStore :
        LET rv  == [k |-> key, n |-> NextVersion(key)]
            new == [apiStore[key] EXCEPT !.rv = rv, !.data = rv]
        IN  /\ userOps > 0
            /\ apiStore' = Put(apiStore, key, new)
            /\ versions' = Put(versions, key, rv.n)
            /\ queue' = Enqueue(queue, key, [t |-> "add", obj |-> new])
            /\ userOps' = userOps - 1
            /\ calls' = <<>>
            /\ last' = Step("UserTouch", key)
            /\ UNCHANGED << Config, Graph, Listing, removed, synced, failedSince, position,
                            objectStore, namespaceStore, current, unreported,
                            pendingNs, resyncs, failures >>

\* the listed items after the deletion of the object of the key, which had
\* the n-th version of the key: a listed item that is deleted for the first
\* time ends with that version
Ended(items, key, n, by) ==
    IF key \in DOMAIN items /\ items[key].last = 0
    THEN [items EXCEPT ![key].last = n, ![key].by = by]
    ELSE items

\* the user deletes an object
UserDelete ==
    \E key \in DOMAIN apiStore :
        /\ userOps > 0
        /\ apiStore' = Drop(apiStore, key)
        /\ queue' = Enqueue(queue, key, [t |-> "del", obj |-> apiStore[key]])
        /\ userOps' = userOps - 1
        /\ calls' = <<>>
        /\ last' = Step("UserDelete", key)
        /\ listedItems' = Ended(listedItems, key, apiStore[key].rv.n, "user")
        /\ UNCHANGED << Config, Graph, toAdd, event, removed, synced, failedSince, position,
                            objectStore, namespaceStore, versions, current,
                        unreported, pendingNs, resyncs, failures >>

\* a namespace is created; the namespace informer will deliver its add event
UserAddNamespace ==
    \E ns \in Namespaces \ ApiNamespaces :
        /\ userOps > 0
        /\ pendingNs' = pendingNs \cup {ns}
        /\ userOps' = userOps - 1
        /\ calls' = <<>>
        /\ last' = Step("UserAddNamespace", <<ns>>)
        /\ UNCHANGED << Config, Graph, Listing, removed, synced, failedSince, position,
                            apiStore, objectStore, namespaceStore, versions,
                        Informer, resyncs, failures >>

\* a variant of the resync that queues nothing
SyncNone(q, order) == q

\* the queue with a sync delta for each key of the order
RECURSIVE SyncAll(_, _)
SyncAll(q, order) ==
    IF order = <<>> THEN q
    ELSE SyncAll(Enqueue(q, Head(order), [t |-> "sync", obj |-> objectStore[Head(order)]]),
                 Tail(order))

\* the orders in which a map of the given keys may be iterated
RECURSIVE Orders(_)
Orders(S) ==
    IF S = {} THEN { <<>> }
    ELSE UNION { { <<x>> \o o : o \in Orders(S \ {x}) } : x \in S }

\* the periodic resync queues a delta for every object of the object store
\* that has none in the queue; the queue is locked while the informer handles
\* the deltas of a key
Resync ==
    /\ resyncs < MaxResyncs
    /\ current = <<>>
    /\ DOMAIN objectStore \ Queued(queue) # {}
    /\ \E order \in Orders(DOMAIN objectStore \ Queued(queue)) :
          queue' = SyncAll(queue, order)
    /\ resyncs' = resyncs + 1
    /\ calls' = <<>>
    /\ last' = Step("Resync", <<>>)
    /\ failedSince' = FALSE
    /\ UNCHANGED << Config, Graph, Listing, removed, synced, position, apiStore,
                    objectStore, namespaceStore, versions, current,
                    unreported, pendingNs, userOps, failures >>

\* the number of the adapter call that the API server rejects in a handler run
FailChoices == IF failures > 0 THEN 0..MaxCalls ELSE {0}

\* the deltas the informer handles next, the first of them, and the queue
\* without them
Batch == IF current # <<>> THEN current ELSE IF queue # <<>> THEN queue[1].deltas ELSE <<>>
Rest  == IF current # <<>> THEN queue ELSE Tail(queue)
NextDelta == Head(Batch)
Deliverable(types) == Batch # <<>> /\ NextDelta.t \in types

\* the replicate-once-version of the object, if any
OnceVersionOf(object) ==
    IF Has(object.ann, ReplicateOnceVersionAnnotation)
    THEN [has |-> TRUE, v |-> object.ann[ReplicateOnceVersionAnnotation]]
    ELSE [has |-> FALSE, v |-> ""]

\* the call was accepted and copied the payload of its source to its target,
\* one of the two carrying replicate-once = true
IsOnceSync(c) ==
    /\ c.ok
    /\ c.op = "update" \/ (c.op = "install" /\ Has(c.obj.ann, ReplicatedFromVersionAnnotation)
                                            /\ c.obj.data = c.src.data)
    /\ \/ OnceOf(c.src).ok /\ OnceOf(c.src).val
       \/ ~IsNil(c.prev) /\ OnceOf(c.prev).ok /\ OnceOf(c.prev).val

\* the target, the source and the replicate-once-version of such calls
OnceSyncs(cs) ==
    { << cs[i].key, cs[i].by, OnceVersionOf(cs[i].src) >> :
        i \in { j \in 1..Len(cs) : IsOnceSync(cs[j]) } }

\* the state after a handler run that ended in es; the maps of the engine have
\* no lock, and the writes of a handler that ran while the other controller
\* was in a handler too may be lost
Commit(es, h, key, lost) ==
    /\ es.failAt <= es.n
    /\ apiStore' = es.api
    /\ objectStore' = es.store
    /\ versions' = es.ver
    /\ queue' = es.q
    /\ unreported' = es.silent
    /\ IF lost THEN UNCHANGED Graph
       ELSE /\ targetsFrom' = es.tFrom
            /\ targetsTo' = es.tTo
            /\ watchedTargets' = es.wT
            /\ watchedPatterns' = es.wP
    /\ calls' = es.calls
    /\ last' = Step(h, key)
    /\ removed' = IF h = "ObjectDeleted" THEN NextDelta.obj ELSE Nil
    /\ synced' = synced \cup OnceSyncs(es.calls)
    /\ failedSince' = (failedSince \/ es.failAt > 0)
    /\ failures' = IF es.failAt > 0 THEN failures - 1 ELSE failures
    /\ UNCHANGED << Config, userOps, resyncs >>

WatchingSources == DOMAIN watchedTargets \cup DOMAIN watchedPatterns

\* the listed items after the accepted Delete calls of a handler run
RECURSIVE EndedByEngine(_, _)
EndedByEngine(items, cs) ==
    IF cs = <<>> THEN items
    ELSE EndedByEngine(IF Head(cs).op = "delete" /\ Head(cs).ok
                       THEN Ended(items, Head(cs).key, Head(cs).obj.rv.n, "engine")
                       ELSE items,
                       Tail(cs))

\* the listed items after the informer called a handler with the object of the key
Handled(items, key, status) ==
    IF key \in DOMAIN items /\ items[key].status \in {"listed", "added"}
    THEN [items EXCEPT ![key].status = status]
    ELSE items

\* a variant with the handlers of cache.NewInformer as they are: the update
\* handler is called whenever the store holds an object of the key
OnChangePlain(key, cs) ==
    /\ event' = [type |-> IF key \in DOMAIN objectStore THEN "update" ELSE "add", key |-> key]
    /\ toAdd' = toAdd
    /\ listedItems' = EndedByEngine(Handled(listedItems, key, "added"), cs)

\* The handlers that newFilledInformer gives to cache.NewInformer, for a delta
\* that is not a deletion: the informer calls the update handler when its store
\* holds an object of the key and the add handler otherwise; the update handler
\* calls the add handler of the engine for a key of toAdd, which it removes,
\* and the update handler of the engine otherwise. cs: the adapter calls of
\* the handler of the engine.
OnChange(key, cs) ==
    LET known == key \in DOMAIN objectStore
        first == known /\ key \in toAdd
    IN  /\ event' = [type |-> IF known /\ ~first THEN "update" ELSE "add", key |-> key]
        /\ toAdd' = IF first THEN toAdd \ {key} ELSE toAdd
        /\ listedItems' = EndedByEngine(Handled(listedItems, key, "added"), cs)

\* the delete handler
OnDelete(key, cs) ==
    /\ event' = [type |-> "delete", key |-> key]
    /\ toAdd' = toAdd
    /\ listedItems' = EndedByEngine(Handled(listedItems, key, "deleted"), cs)

\* the informer stores the object of an add, update or sync delta and calls
\* ObjectAdded with it
RunObjectAdded(lost) ==
    /\ Deliverable({"add", "sync"})
    /\ \E failAt \in FailChoices : \E echo \in BOOLEAN :
          \E object \in { NextDelta.obj } :
            \E es \in { ObjectAdded(EngineState(Put(objectStore, KeyOf(object), object),
                                                Rest, failAt, echo), object) } :
              /\ Commit(es, "ObjectAdded", KeyOf(object), lost)
              /\ OnChange(KeyOf(object), es.calls)
              /\ current' = Tail(Batch)
              /\ UNCHANGED << namespaceStore, pendingNs >>

\* the informer removes the object of a delete delta from the object store
\* and calls ObjectDeleted with it
RunObjectDeleted(lost) ==
    /\ Deliverable({"del"})
    /\ \E failAt \in FailChoices : \E echo \in BOOLEAN :
          \E order \in Orders(WatchingSources) :
            \E object \in { NextDelta.obj } :
              \E es \in { ObjectDeleted(EngineState(Drop(objectStore, KeyOf(object)),
                                                    Rest, failAt, echo), object, order) } :
                /\ Commit(es, "ObjectDeleted", KeyOf(object), lost)
                /\ OnDelete(KeyOf(object), es.calls)
                /\ current' = Tail(Batch)
                /\ UNCHANGED << namespaceStore, pendingNs >>

\* the namespace informer stores an added namespace and calls NamespaceAdded
RunNamespaceAdded(lost) ==
    \E ns \in pendingNs : \E failAt \in FailChoices : \E echo \in BOOLEAN :
        \E order \in Orders(WatchingSources) :
          \E es \in { NamespaceAdded(EngineState(objectStore, queue, failAt, echo),
                                       ns, order) } :
              /\ Commit(es, "NamespaceAdded", <<ns>>, lost)
              /\ event' = [type |-> "add", key |-> <<ns>>]
              /\ toAdd' = toAdd
              /\ listedItems' = EndedByEngine(listedItems, es.calls)
              /\ namespaceStore' = namespaceStore \cup {ns}
              /\ pendingNs' = pendingNs \ {ns}
              /\ UNCHANGED current

\* the handlers in a schedule where each of them runs from its first to its
\* last statement while the other controller waits
Serial == position = Idle /\ UNCHANGED position
HandleObjectAdded == Serial /\ RunObjectAdded(FALSE)
HandleObjectDeleted == Serial /\ RunObjectDeleted(FALSE)
HandleNamespaceAdded == Serial /\ RunNamespaceAdded(FALSE)

Next ==
    \/ UserApply
    \/ UserTouch
    \/ UserDelete
    \/ UserAddNamespace
    \/ Resync
    \/ HandleObjectAdded
    \/ HandleObjectDeleted
    \/ HandleNamespaceAdded

Spec == Init /\ [][Next]_vars
SpecPull == InitPull /\ [][Next]_vars
SpecBoth == InitBoth /\ [][Next]_vars
SpecHandOff == InitHandOff /\ [][Next]_vars
SpecWatch == InitWatch /\ [][Next]_vars
SpecOnce == InitOnce /\ [][Next]_vars
SpecUnknown == InitUnknown /\ [][Next]_vars
SpecIllFormed == InitIllFormed /\ [][Next]_vars
SpecRecreate == InitRecreate /\ [][Next]_vars
SpecChain == InitChain /\ [][Next]_vars
SpecAllowed == InitAllowed /\ [][Next]_vars
SpecSelf == InitSelf /\ [][Next]_vars

\* ------------------------------------------------------ the initial list
\* the clusters that the engine may find when it starts: the source of the
\* push catalog with a replica that lacks the version of its source, with a
\* user's object in the place of the replica, or alone; and the replica
\* without its source, with a source that does not name it any more, or with
\* a source whose replicate-to does not parse
ListedClusters ==
    LET source == Entry(S1, (ReplicateToAnnotation :> << Item("t1", "dst") >>))
        replica == Entry(T1, (ReplicatedByAnnotation :> S1))
    IN  { { source },
          { source, replica },
          { source, Entry(T1, NoAnn) },
          { replica },
          { Entry(S1, NoAnn), replica },
          { Entry(S1, (ReplicateToAnnotation :> << Item("(", "dst") >>)), replica } }

\* the engine is constructed in a cluster that holds objects; its informers
\* have not listed yet, the namespace informer has the namespaces to deliver
InitListed ==
    /\ AllowAll = FALSE
    /\ IgnoreUnknown = TRUE
    /\ catalog = UNION ListedClusters \cup { Entry(S1, NoAnn) }
    /\ \E cluster \in ListedClusters :
          apiStore = [key \in { e.key : e \in cluster } |->
                        LET e  == CHOOSE x \in cluster : x.key = key
                            rv == [k |-> key, n |-> 1]
                        IN  [ns |-> key[1], name |-> key[2], ann |-> e.ann,
                             rv |-> rv, data |-> rv]]
    /\ versions = [key \in DOMAIN apiStore |-> 1]
    /\ objectStore = [k \in {} |-> Nil]
    /\ namespaceStore = InitialNamespaces
    /\ pendingNs = InitialNamespaces
    /\ targetsFrom = [k \in {} |-> <<>>]
    /\ targetsTo = [k \in {} |-> <<>>]
    /\ watchedTargets = [k \in {} |-> <<>>]
    /\ watchedPatterns = [k \in {} |-> <<>>]
    /\ queue = <<>>
    /\ current = <<>>
    /\ unreported = {}
    /\ calls = <<>>
    /\ last = [h |-> "init", key |-> <<>>, n |-> 0]
    /\ removed = Nil
    /\ synced = {}
    /\ failedSince = FALSE
    /\ toAdd = {}
    /\ event = NoEvent
    /\ listedItems = [k \in {} |-> ""]
    /\ position = [objectController |-> "start", namespaceController |-> "idle"]
    /\ userOps = MaxUserOps - 1
    /\ resyncs = 0
    /\ failures = 0

\* a variant of the list that leaves the store to the informer
ListUnfilled ==
    /\ objectStore' = objectStore
    /\ toAdd' = toAdd

\* the list function of newFilledInformer: the items replace the content of
\* the store and their keys are noted in toAdd
ListFilled ==
    /\ objectStore' = apiStore
    /\ toAdd' = DOMAIN apiStore

\* the first list of the object informer: the informer queues the listed
\* items, in the order of the list
List ==
    /\ position.objectController = "start"
    /\ ListFilled
    /\ listedItems' = [key \in DOMAIN apiStore |-> [status |-> "listed", last |-> 0, by |-> ""]]
    /\ \E order \in Orders(DOMAIN apiStore) :
          queue' = [i \in 1..Len(order) |->
                      [key |-> order[i],
                       deltas |-> << [t |-> "sync", obj |-> apiStore[order[i]]] >>]]
    /\ position' = [position EXCEPT !.objectController = "idle"]
    /\ calls' = <<>>
    /\ last' = Step("List", <<>>)
    /\ UNCHANGED << Config, Graph, apiStore, namespaceStore, versions, current, unreported,
                    pendingNs, event, removed, synced, failedSince, userOps, resyncs,
                    failures >>

\* the watch of the informer starts with the list
Listed == position.objectController # "start"

NextListed ==
    \/ List
    \/ Listed /\ UserApply
    \/ Listed /\ UserTouch
    \/ Listed /\ UserDelete
    \/ Listed /\ UserAddNamespace
    \/ Listed /\ Resync
    \/ HandleObjectAdded
    \/ HandleObjectDeleted
    \/ HandleNamespaceAdded

SpecListed == InitListed /\ [][NextListed]_vars

\* Start runs each controller in a goroutine of its own, and each controller
\* calls the handlers of its informer one after the other. Nothing orders the
\* handlers of the object controller and those of the namespace controller.
\* A handler is entered when its controller has an event and is left at its
\* last statement, where the model records what it did.
EnterObjectHandler ==
    /\ position.objectController = "idle"
    /\ Batch # <<>>
    /\ position' = [position EXCEPT !.objectController = "handler"]
    /\ UNCHANGED << Config, Graph, Informer, Listing, apiStore, objectStore, namespaceStore,
                    versions, pendingNs, removed, synced, failedSince, calls, last, userOps,
                    resyncs, failures >>

EnterNamespaceHandler ==
    /\ position.namespaceController = "idle"
    /\ pendingNs # {}
    /\ position' = [position EXCEPT !.namespaceController = "handler"]
    /\ UNCHANGED << Config, Graph, Informer, Listing, apiStore, objectStore, namespaceStore,
                    versions, pendingNs, removed, synced, failedSince, calls, last, userOps,
                    resyncs, failures >>

\* whether the writes of a handler to the maps can be lost: when the other
\* controller is in a handler
Raced(other) == IF position[other] = "handler" THEN BOOLEAN ELSE {FALSE}

LeaveObjectAdded ==
    /\ position.objectController = "handler"
    /\ \E lost \in Raced("namespaceController") : RunObjectAdded(lost)
    /\ position' = [position EXCEPT !.objectController = "idle"]

LeaveObjectDeleted ==
    /\ position.objectController = "handler"
    /\ \E lost \in Raced("namespaceController") : RunObjectDeleted(lost)
    /\ position' = [position EXCEPT !.objectController = "idle"]

LeaveNamespaceAdded ==
    /\ position.namespaceController = "handler"
    /\ \E lost \in Raced("objectController") : RunNamespaceAdded(lost)
    /\ position' = [position EXCEPT !.namespaceController = "idle"]

\* the runtime finds two goroutines in the same map and ends the process
Fatal ==
    /\ position.objectController = "handler"
    /\ position.namespaceController = "handler"
    /\ position' = [objectController |-> "fatal", namespaceController |-> "fatal"]
    /\ UNCHANGED << Config, Graph, Informer, Listing, apiStore, objectStore, namespaceStore,
                    versions, pendingNs, removed, synced, failedSince, calls, last, userOps,
                    resyncs, failures >>

NextThreads ==
    \/ UserApply
    \/ UserTouch
    \/ UserDelete
    \/ UserAddNamespace
    \/ Resync
    \/ EnterObjectHandler
    \/ EnterNamespaceHandler
    \/ LeaveObjectAdded
    \/ LeaveObjectDeleted
    \/ LeaveNamespaceAdded
    \/ Fatal

SpecThreads == InitWatch /\ [][NextThreads]_vars

\* What a handler step does to last: a step is a Delivered(h, keys) step
\* exactly when it is a step of the handler h, and Delivered(h, keys) is
\* enabled exactly when h has an event to handle.
Delivered(h, keys) == \E key \in keys : last' = Step(h, key)
NextKey(types) == IF Deliverable(types) THEN { KeyOf(NextDelta.obj) } ELSE {}

\* the informers deliver every event they hold: a handler that has an event
\* to handle eventually runs
Delivery ==
    /\ WF_last(Delivered("ObjectAdded", NextKey({"add", "sync"})))
    /\ WF_last(Delivered("ObjectDeleted", NextKey({"del"})))
    /\ WF_last(Delivered("NamespaceAdded", { <<ns>> : ns \in pendingNs }))
SpecLive == Init /\ [][Next]_vars /\ Delivery

\* ============================================================== properties
CallsOf(key) == { i \in 1..Len(calls) : calls[i].key = key }
Accepted == \A i \in 1..Len(calls) : calls[i].ok
CarriesReplicatedBy(object, key) ==
    /\ Has(object.ann, ReplicatedByAnnotation)
    /\ object.ann[ReplicatedByAnnotation] = key

\* C1: an Install is issued for a key that holds an object only when that
\* object carries replicated-by = the key of the source the Install is made
\* for; an object that is user-owned or was created by another source is never
\* the object of an Install
InstallOnlyOverOwnReplica ==
    \A i \in 1..Len(calls) :
        (calls[i].op = "install" /\ ~IsNil(calls[i].prev))
            => CarriesReplicatedBy(calls[i].prev, calls[i].by)

\* a source was handled whose target key is held by an object it did not
\* create, and the pass made no adapter call on that key
PushCancelled ==
    /\ last.h = "ObjectAdded"
    /\ last.key \in DOMAIN targetsTo
    /\ last.key \in DOMAIN objectStore
    /\ \E i \in 1..Len(targetsTo[last.key]) :
          LET k == targetsTo[last.key][i]
          IN  /\ k \in DOMAIN objectStore
              /\ ~CarriesReplicatedBy(objectStore[k], last.key)
              /\ CallsOf(k) = {}

\* C2: a Delete is issued only for an object that carries replicated-by, and
\* in the pass of an event of another object (its source) only when the
\* annotation names that object
DeleteOnlyOwnReplica ==
    \A i \in 1..Len(calls) :
        calls[i].op = "delete" =>
            /\ Has(calls[i].obj.ann, ReplicatedByAnnotation)
            /\ ~IsNil(calls[i].prev) => Has(calls[i].prev.ann, ReplicatedByAnnotation)
            /\ calls[i].key # last.key =>
                  /\ last.h \in {"ObjectAdded", "ObjectDeleted"}
                  /\ CarriesReplicatedBy(calls[i].obj, last.key)
                  /\ calls[i].by = last.key

\* the pass of a source's event deleted a replica of that source
SourceEventDeletedReplica ==
    /\ last.h \in {"ObjectAdded", "ObjectDeleted"}
    /\ \E i \in 1..Len(calls) :
          /\ calls[i].op = "delete"
          /\ calls[i].ok
          /\ calls[i].key # last.key
          /\ calls[i].key \notin DOMAIN objectStore

\* the pairs <<T, S>> of a pulling target T and its existing source S that the
\* last pass evaluated: the pass was T's own event, or S's event with T among
\* the dependents of S
PulledPairs ==
    { p \in (DOMAIN objectStore) \X (DOMAIN objectStore) :
        LET from == resolveAnnotation(objectStore[p[1]], ReplicateFromAnnotation)
        IN  /\ last.h = "ObjectAdded"
            /\ from.ok /\ from.val = p[2]
            /\ p[1] # p[2]
            /\ getReplicationTargets(objectStore[p[1]]).isNil
            /\ ~Has(objectStore[p[1]].ann, ReplicatedByAnnotation)
            /\ \/ last.key = p[1]
               \/ /\ last.key = p[2]
                  /\ p[2] \in DOMAIN targetsFrom
                  /\ p[1] \in Range(targetsFrom[p[2]]) }

\* C3: Update(target, source) is called only when isReplicationAllowed allows
\* the pair; in a pass that evaluated a pair the source explicitly disallows,
\* the only calls on the target are Clear and the target carries no
\* replicated-from-version afterwards; in a pass that evaluated a pair for
\* which the permission is neither allowed nor disallowed, no adapter call is
\* made on the target
UpdateOnlyWhenAllowed ==
    /\ \A i \in 1..Len(calls) :
          calls[i].op = "update" => isReplicationAllowed(calls[i].obj, calls[i].src).ok
    /\ \A p \in PulledPairs :
          LET allowed == isReplicationAllowed(objectStore[p[1]], objectStore[p[2]])
          IN  /\ (~allowed.ok /\ allowed.nok) =>
                    /\ \A i \in CallsOf(p[1]) : calls[i].op = "clear"
                    /\ Accepted => ~Has(objectStore[p[1]].ann, ReplicatedFromVersionAnnotation)
              /\ (~allowed.ok /\ ~allowed.nok) => CallsOf(p[1]) = {}

\* a pass evaluated a pair that the source explicitly disallows and cleared
\* the target, which had been replicated before
DisallowedTargetCleared ==
    \E p \in PulledPairs :
        LET allowed == isReplicationAllowed(objectStore[p[1]], objectStore[p[2]])
        IN  /\ ~allowed.ok /\ allowed.nok
            /\ \E i \in CallsOf(p[1]) : calls[i].op = "clear" /\ calls[i].ok

Keys == { S1, S2, T1, T2 }
Rejected == failures < MaxFailures
OrphanOf(s, t) ==
    /\ s \notin DOMAIN apiStore
    /\ t \in DOMAIN apiStore
    /\ CarriesReplicatedBy(apiStore[t], s)

\* C4: when a source S does not exist while T carries replicated-by = S, T is
\* eventually deleted, unless the user creates S again or rewrites T first, or
\* the API server rejected an adapter call
DeletedSourceDeletesReplica ==
    \A s \in Keys : \A t \in Keys :
        OrphanOf(s, t) ~> (~OrphanOf(s, t) \/ Rejected)

\* the pass of the delete event of a source deleted its replica
DeleteEventDeletedReplica ==
    /\ last.h = "ObjectDeleted"
    /\ last.key \notin DOMAIN objectStore
    /\ \E i \in 1..Len(calls) :
          /\ calls[i].op = "delete" /\ calls[i].ok
          /\ CarriesReplicatedBy(calls[i].prev, last.key)
          /\ calls[i].key \notin DOMAIN objectStore

\* every event the informers hold has been handled
Drained == queue = <<>> /\ current = <<>> /\ pendingNs = {}

\* the keys that the replicate-to annotations of the object name in the known
\* namespaces
PushTargetsOf(object) ==
    LET t == getReplicationTargets(object)
    IN  IF t.err # "" \/ t.isNil THEN {}
        ELSE ( { k \in Range(t.targets) : k[1] \in namespaceStore }
               \cup UNION { Targets(t.patterns[i], namespaceStore) : i \in 1..Len(t.patterns) } )
             \ { KeyOf(object) }

\* the pairs <<S, K>> of an existing source S and a key K that it targets
PushPairs ==
    { p \in (DOMAIN apiStore) \X (Namespaces \X Names) : p[2] \in PushTargetsOf(apiStore[p[1]]) }

IsReplicaOf(key, source) ==
    /\ key \in DOMAIN apiStore
    /\ source \in DOMAIN apiStore
    /\ CarriesReplicatedBy(apiStore[key], source)

UserOwned(key) ==
    key \in DOMAIN apiStore /\ ~Has(apiStore[key].ann, ReplicatedByAnnotation)

\* the object is a source that only pushes, every change of it anew
PlainSource(object) ==
    /\ ~Has(object.ann, ReplicatedByAnnotation)
    /\ ~Has(object.ann, ReplicateFromAnnotation)
    /\ ~Has(object.ann, ReplicateOnceAnnotation)

\* the replica carries the version of its source, and the payload of its
\* source unless the user wrote another payload to the replica since
ReplicaUpToDate(key, source) ==
    /\ Has(apiStore[key].ann, ReplicatedFromVersionAnnotation)
    /\ apiStore[key].ann[ReplicatedFromVersionAnnotation] = apiStore[source].rv
    /\ \/ apiStore[key].data = apiStore[source].data
       \/ apiStore[key].data.k = key

PullPairs ==
    { p \in (DOMAIN apiStore) \X (Namespaces \X Names) :
        LET from == resolveAnnotation(apiStore[p[1]], ReplicateFromAnnotation)
        IN  from.ok /\ from.val = p[2] }

HasVersionOf(key, source) ==
    /\ Has(apiStore[key].ann, ReplicatedFromVersionAnnotation)
    /\ apiStore[key].ann[ReplicatedFromVersionAnnotation] = apiStore[source].rv

PermissionHolds(key, source) ==
    source \in DOMAIN apiStore /\ isReplicationAllowed(apiStore[key], apiStore[source]).ok

PermissionDenied(key, source) ==
    source \in DOMAIN apiStore /\ isReplicationAllowed(apiStore[key], apiStore[source]).nok

Once(object) == Has(object.ann, ReplicateOnceAnnotation)

Waiting ==
    { source \in WatchingSources \cap DOMAIN objectStore :
        source # KeyOf(removed) /\ isReplicatedTo(objectStore[source], removed).ok }

\* the key holds the replica that an Install for the source creates: with the
\* payload of the source, or with no payload and the replicate-from annotation
\* of the source when the source pulls its payload
InstalledFor(key, source) ==
    /\ key \in DOMAIN objectStore
    /\ CarriesReplicatedBy(objectStore[key], source)
    /\ IF Has(objectStore[source].ann, ReplicateFromAnnotation)
       THEN /\ objectStore[key].data = Empty
            /\ Has(objectStore[key].ann, ReplicateFromAnnotation)
       ELSE objectStore[key].data = objectStore[source].data

PlainTarget(object) ==
    /\ resolveAnnotation(object, ReplicateFromAnnotation).ok
    /\ getReplicationTargets(object).isNil
    /\ ~Has(object.ann, ReplicatedByAnnotation)

\* the pulling targets that the last pass found without a source that permits
\* the replication: the pass was the target's own event and the source does
\* not exist or disallows the replication, or it was the event of the source,
\* the target among its dependents, and the source disallows the replication
\* or was deleted
Unsourced ==
    { t \in DOMAIN objectStore :
        LET object == objectStore[t]
            s == resolveAnnotation(object, ReplicateFromAnnotation).val
            denied == /\ s \in DOMAIN objectStore
                      /\ isReplicationAllowed(object, objectStore[s]).nok
            dependent == s \in DOMAIN targetsFrom /\ t \in Range(targetsFrom[s])
        IN  /\ PlainTarget(object)
            /\ s # t
            /\ \/ last.h = "ObjectAdded" /\ last.key = t
                    /\ (s \notin DOMAIN objectStore \/ denied)
               \/ last.h = "ObjectAdded" /\ last.key = s /\ dependent /\ denied
               \/ last.h = "ObjectDeleted" /\ last.key = s /\ dependent
                    /\ s \notin DOMAIN objectStore }

Replayed(key) ==
    ObjectAdded(EngineState(objectStore, queue, 0, TRUE), objectStore[key]).calls

\* C9: after an ObjectAdded pass for an object, in which the API server
\* rejected no adapter call, a second ObjectAdded pass for the object, with
\* the stores as the first pass left them, makes no adapter call
SecondPassSilent ==
    (last.h = "ObjectAdded" /\ Accepted /\ last.key \in DOMAIN objectStore)
        => Replayed(last.key) = <<>>

\* an ObjectAdded pass made adapter calls, none of them rejected, and left the
\* object in the object store
FirstPassActed ==
    /\ last.h = "ObjectAdded"
    /\ Accepted
    /\ calls # <<>>
    /\ last.key \in DOMAIN objectStore
    /\ Replayed(last.key) = <<>>

\* the step is an ObjectAdded pass
ObjectAddedStep == last'.h = "ObjectAdded" /\ last' # last

\* the target is named by the replicate-to annotations of the object
StillTargeted(object, target) ==
    LET t == getReplicationTargets(object)
    IN  \/ target \in Range(t.targets)
        \/ \E i \in 1..Len(t.patterns) : MatchString(t.patterns[i], target)

\* the numbers of the Delete calls that the step made on the key
DeletesOf(key) ==
    { i \in 1..Len(calls') : calls'[i].op = "delete" /\ calls'[i].key = key }

\* the step is an ObjectAdded pass of a source with recorded targets that
\* treats the recorded targets as the claim says
CleanupAsDeclared ==
    LET object == NextDelta.obj
        source == KeyOf(object)
        old    == IF source \in DOMAIN targetsTo THEN Range(targetsTo[source]) ELSE {}
    IN  (ObjectAddedStep /\ getReplicationTargets(object).err = "") =>
            \A target \in old :
                IF StillTargeted(object, target)
                THEN DeletesOf(target) = {}
                ELSE ( /\ target \in DOMAIN objectStore
                       /\ target # source
                       /\ isReplicatedBy(objectStore[target], object).ok )
                     => /\ Cardinality(DeletesOf(target)) = 1
                        /\ \A i \in DeletesOf(target) :
                              /\ calls'[i].by = source
                              /\ calls'[i].ok =>
                                    /\ target \notin DOMAIN objectStore'
                                    /\ target \notin DOMAIN apiStore'

\* C10: an ObjectAdded pass of a source S makes one Delete call, which deletes
\* the target unless the API server rejects it, for every target recorded for
\* S that the annotations of S do not name any more and that carries
\* replicated-by = S, and makes no Delete call for a recorded target that the
\* annotations still name
CleanupDeletesDroppedTargets == [][CleanupAsDeclared]_vars

\* an ObjectAdded pass of a source deleted a replica that the source names no
\* more and kept a replica that it still names
DroppedTargetDeletedOtherKept ==
    /\ last.h = "ObjectAdded"
    /\ last.key \in DOMAIN objectStore
    /\ last.key \in DOMAIN targetsTo
    /\ \E i \in 1..Len(calls) :
          /\ calls[i].op = "delete" /\ calls[i].ok
          /\ calls[i].by = last.key
          /\ CarriesReplicatedBy(calls[i].prev, last.key)
          /\ ~StillTargeted(objectStore[last.key], calls[i].key)
          /\ calls[i].key \notin DOMAIN apiStore
    /\ \E kept \in Range(targetsTo[last.key]) :
          /\ kept \in DOMAIN apiStore
          /\ CarriesReplicatedBy(apiStore[kept], last.key)
          /\ StillTargeted(objectStore[last.key], kept)

\* the keys that the replicate-to annotations of the object name in the
\* namespace, by a literal or by a pattern
TargetsIn(object, namespace) ==
    LET t == getReplicationTargets(object)
    IN  ( { k \in Range(t.targets) : k[1] = namespace }
          \cup { MatchNamespace(t.patterns[i], namespace) : i \in 1..Len(t.patterns) } )
        \ { <<>>, KeyOf(object) }

\* the existing sources that the engine watches for the namespace
WatchingNamespace(namespace) ==
    { source \in WatchingSources \cap DOMAIN objectStore :
        /\ ~Has(objectStore[source].ann, ReplicatedByAnnotation)
        /\ getReplicationTargets(objectStore[source]).err = ""
        /\ \/ /\ source \in DOMAIN watchedTargets
              /\ \E i \in 1..Len(watchedTargets[source]) :
                    watchedTargets[source][i][1] = namespace
           \/ /\ source \in DOMAIN watchedPatterns
              /\ \E i \in 1..Len(watchedPatterns[source]) :
                    MatchNamespace(watchedPatterns[source][i], namespace) # <<>> }

\* the numbers of the Install calls of the last pass for the source on the key
InstallsOf(source, key) ==
    { i \in 1..Len(calls) :
        calls[i].op = "install" /\ calls[i].by = source /\ calls[i].key = key }

\* the last pass was ObjectAdded of a pushing source none of whose targets is
\* in a known namespace: it made no Install call and recorded the patterns
NoNamespaceNoInstall ==
    (last.h = "ObjectAdded" /\ last.key \in DOMAIN objectStore) =>
        LET object == objectStore[last.key]
            t == getReplicationTargets(object)
        IN  ( /\ ~Has(object.ann, ReplicatedByAnnotation)
              /\ t.err = "" /\ ~t.isNil
              /\ PushTargetsOf(object) = {} ) =>
                /\ \A i \in 1..Len(calls) : calls[i].op # "install"
                /\ Len(t.patterns) > 0 =>
                      /\ last.key \in DOMAIN watchedPatterns
                      /\ watchedPatterns[last.key] = t.patterns
                /\ Len(t.targets) > 0 =>
                      /\ last.key \in DOMAIN watchedTargets
                      /\ watchedTargets[last.key] = t.targets

\* C11 as stated: a pushing source none of whose targets is in a known
\* namespace causes no Install call and is recorded in the watched maps, and
\* the NamespaceAdded pass of a namespace makes exactly one Install call for
\* every watching source and every key that the source names in the namespace
OneInstallPerName ==
    /\ NoNamespaceNoInstall
    /\ last.h = "NamespaceAdded" =>
          \A source \in WatchingNamespace(last.key[1]) :
              \A key \in TargetsIn(objectStore[source], last.key[1]) :
                  Cardinality(InstallsOf(source, key)) = 1

\* C11, amended: as above, but the NamespaceAdded pass makes the one Install
\* call only for a key that the object store does not hold or holds as a
\* replica of the source; for a key held by an object that the source did not
\* create, or by a replica of the source that needs no update, it makes none
OneInstallPerFreeName ==
    /\ NoNamespaceNoInstall
    /\ last.h = "NamespaceAdded" =>
          \A source \in WatchingNamespace(last.key[1]) :
              \A key \in TargetsIn(objectStore[source], last.key[1]) :
                  /\ Cardinality(InstallsOf(source, key)) <= 1
                  /\ \A i \in InstallsOf(source, key) :
                        IsNil(calls[i].prev) \/ CarriesReplicatedBy(calls[i].prev, source)
                  /\ InstallsOf(source, key) = {} =>
                        /\ key \in DOMAIN objectStore
                        /\ \/ ~CarriesReplicatedBy(objectStore[key], source)
                           \/ ~needsDataUpdate(objectStore[key], objectStore[source]).ok

\* the NamespaceAdded pass of a namespace installed the replica of a source
\* that had been recorded with a pattern while no namespace matched it
LateNamespaceInstalled ==
    /\ last.h = "NamespaceAdded"
    /\ \E source \in WatchingNamespace(last.key[1]) :
          /\ source \in DOMAIN watchedPatterns
          /\ \E key \in TargetsIn(objectStore[source], last.key[1]) :
                /\ \E i \in InstallsOf(source, key) : calls[i].ok
                /\ key \in DOMAIN apiStore
                /\ CarriesReplicatedBy(apiStore[key], source)
                /\ apiStore[key].data = objectStore[source].data

\* the Install calls of the last pass for a source that carries replicate-from
FromInstalls ==
    { i \in 1..Len(calls) :
        calls[i].op = "install" /\ Has(calls[i].src.ann, ReplicateFromAnnotation) }

\* the Update calls of the last pass on the replica of a pushing source that
\* has not been synchronized before
ReplicaUpdates ==
    { i \in 1..Len(calls) :
        /\ calls[i].op = "update"
        /\ ~IsNil(calls[i].prev)
        /\ Has(calls[i].prev.ann, ReplicatedByAnnotation)
        /\ ~Has(calls[i].prev.ann, ReplicatedFromVersionAnnotation) }

\* the Install for a source with replicate-from writes the replicated-by and
\* replicate-from annotations (and replicate-once), and none of the payloads
InstallOnlyAnnotates ==
    \A i \in FromInstalls :
        LET from == resolveAnnotation(calls[i].src, ReplicateFromAnnotation)
        IN  /\ DOMAIN calls[i].obj.ann
                  \subseteq { ReplicatedByAnnotation, ReplicateFromAnnotation,
                              ReplicateOnceAnnotation }
            /\ calls[i].obj.ann[ReplicatedByAnnotation] = calls[i].by
            /\ calls[i].obj.ann[ReplicateFromAnnotation] = from.val
            /\ calls[i].obj.data =
                  IF IsNil(calls[i].prev) THEN Empty ELSE calls[i].prev.data

PullAfterTargetPass ==
    \A i \in 1..Len(calls') :
        ( /\ calls'[i].op = "update"
          /\ ~IsNil(calls'[i].prev)
          /\ Has(calls'[i].prev.ann, ReplicatedByAnnotation) ) =>
            /\ last'.h = "ObjectAdded"
            /\ \/ last'.key = calls'[i].key
               \/ /\ last'.key = calls'[i].by
                  /\ last'.key \in DOMAIN targetsFrom
                  /\ calls'[i].key \in Range(targetsFrom[last'.key])

SyncsOncePerVersion ==
    (last' # last) => (OnceSyncs(calls') \cap synced = {})

\* C13 as stated: with replicate-once = true on the source or on the target,
\* a target is synchronized at most once for each source and
\* replicate-once-version
OncePerSourceVersion == [][SyncsOncePerVersion]_vars

\* the accepted calls of the step copy a payload under replicate-once only
\* to a target that carries no replicated-from-version, or whose
\* replicate-once-version differs from the one that the source declares
SyncsOnceUnlessReset ==
    (last' # last) =>
        \A i \in 1..Len(calls') :
            IsOnceSync(calls'[i]) =>
                \/ IsNil(calls'[i].prev)
                \/ ~Has(calls'[i].prev.ann, ReplicatedFromVersionAnnotation)
                \/ /\ OnceVersionOf(calls'[i].src).has
                   /\ OnceVersionOf(calls'[i].src) # OnceVersionOf(calls'[i].prev)

\* C13, amended: with replicate-once = true on the source or on the target,
\* a target that carries replicated-from-version is synchronized again only
\* when the source declares a replicate-once-version other than the target's
OncePerRecordedVersion == [][SyncsOnceUnlessReset]_vars

\* a target with replicate-once has been synchronized, and its source has
\* changed since without the target being synchronized again
OnceTargetKeptOldPayload ==
    \E t \in synced :
        /\ t[1] \in DOMAIN objectStore /\ t[2] \in DOMAIN objectStore
        /\ Has(objectStore[t[1]].ann, ReplicatedFromVersionAnnotation)
        /\ objectStore[t[1]].ann[ReplicatedFromVersionAnnotation] # objectStore[t[2]].rv
        /\ objectStore[t[1]].data # objectStore[t[2]].data
        /\ objectStore[t[1]].data # Empty
        /\ last.h = "ObjectAdded" /\ last.key = t[2] /\ calls = <<>>

\* the object is a source that only pushes, and once
OncePusher(object) ==
    /\ ~Has(object.ann, ReplicatedByAnnotation)
    /\ ~Has(object.ann, ReplicateFromAnnotation)
    /\ OnceOf(object).ok /\ OnceOf(object).val
    /\ PushTargetsOf(object) # {}

\* the numbers of the Install calls in the sequence that copy the payload of
\* the source to the key
PayloadInstalls(cs, source, key) ==
    { i \in 1..Len(cs) :
        /\ cs[i].op = "install" /\ cs[i].by = KeyOf(source) /\ cs[i].key = key
        /\ cs[i].obj.data = source.data
        /\ Has(cs[i].obj.ann, ReplicatedFromVersionAnnotation)
        /\ cs[i].obj.ann[ReplicatedFromVersionAnnotation] = source.rv }

\* the object store holds the key as a replica installed for the source
InstalledReplica(key, source) ==
    /\ key \in DOMAIN objectStore
    /\ CarriesReplicatedBy(objectStore[key], source)
    /\ ~Has(objectStore[key].ann, ReplicateFromAnnotation)
    /\ Has(objectStore[key].ann, ReplicatedFromVersionAnnotation)

\* the ObjectAdded pass of a source pushed once makes, for each of its
\* targets: one Install of the payload when the store does not hold the
\* target; none when the store holds the replica and the source declares no
\* replicate-once-version or the one of the replica; one when the source
\* declares another replicate-once-version than the replica
OncePushStep ==
    ( /\ last' # last
      /\ last'.h = "ObjectAdded"
      /\ last'.key \in DOMAIN objectStore'
      /\ OncePusher(objectStore'[last'.key]) ) =>
        LET source == objectStore'[last'.key]
        IN  \A key \in PushTargetsOf(source) :
                LET n == Cardinality(PayloadInstalls(calls', source, key))
                IN  /\ key \notin DOMAIN objectStore => n = 1
                    /\ InstalledReplica(key, last'.key) =>
                          IF objectStore[key].ann[ReplicatedFromVersionAnnotation] = source.rv
                          THEN n = 0
                          ELSE IF /\ OnceVersionOf(source).has
                                  /\ OnceVersionOf(source) # OnceVersionOf(objectStore[key])
                          THEN n = 1
                          ELSE n = 0

\* C14: for a push source with replicate-once = true, the first pass installs
\* each target, a later change of the source that does not change
\* replicate-once-version installs no payload again, and a different
\* replicate-once-version makes exactly one more Install for each target
PushedOncePerVersion == [][OncePushStep]_vars

\* the replica of a source pushed once has been installed, has stayed as it was
\* through a change of the source, and has then been installed once more for
\* a new replicate-once-version
ReinstalledForNewVersion ==
    /\ last.h = "ObjectAdded"
    /\ last.key \in DOMAIN objectStore
    /\ OncePusher(objectStore[last.key])
    /\ OnceVersionOf(objectStore[last.key]).has
    /\ \E i \in PayloadInstalls(calls, objectStore[last.key], T1) :
          /\ calls[i].ok
          /\ ~IsNil(calls[i].prev)
          /\ CarriesReplicatedBy(calls[i].prev, last.key)
          /\ ~OnceVersionOf(calls[i].prev).has
          /\ calls[i].prev.ann[ReplicatedFromVersionAnnotation].n + 1 < calls[i].src.rv.n

\* the dependents registered for the key
DependentsOf(from, key) == IF key \in DOMAIN from THEN Range(from[key]) ELSE {}

\* the ObjectDeleted pass of a source keeps in targetsFrom exactly its
\* registered dependents that exist and still resolve replicate-from to it
DeletedSourceKeepsDependents ==
    (last' # last /\ last'.h = "ObjectDeleted") =>
        DependentsOf(targetsFrom', last'.key)
          = { d \in DependentsOf(targetsFrom, last'.key) :
                /\ d \in DOMAIN objectStore'
                /\ annotationRefersTo(objectStore'[d], ReplicateFromAnnotation, removed') }

\* the ObjectAdded pass of a source makes an Update call for each registered
\* dependent that exists, resolves replicate-from to the source, is allowed
\* by the source and needs its data
AddedSourceUpdatesDependents ==
    ( /\ last' # last /\ last'.h = "ObjectAdded"
      /\ last'.key \in DOMAIN objectStore' ) =>
        \A d \in DependentsOf(targetsFrom, last'.key) :
            ( /\ d \in DOMAIN objectStore
              /\ annotationRefersTo(objectStore[d], ReplicateFromAnnotation,
                                    objectStore'[last'.key])
              /\ isReplicationAllowed(objectStore[d], objectStore'[last'.key]).ok
              /\ needsDataUpdate(objectStore[d], objectStore'[last'.key]).ok ) =>
                \E i \in 1..Len(calls') :
                    /\ calls'[i].op = "update"
                    /\ calls'[i].key = d
                    /\ calls'[i].by = last'.key
                    /\ calls'[i].prev = objectStore[d]

\* C15: after ObjectDeleted(S) every dependent that still resolves
\* replicate-from to S stays registered in targetsFrom[S], and a later
\* ObjectAdded(S) issues Update on each registered dependent, with no event of
\* the dependents in between
DependentsSurviveSource ==
    [][DeletedSourceKeepsDependents /\ AddedSourceUpdatesDependents]_vars

\* the source has been deleted, its dependent has been cleared and has stayed
\* registered, and the ObjectAdded of the source created again has updated
\* the dependent as the Clear had left it
RecreatedSourceUpdatedDependent ==
    /\ last.h = "ObjectAdded"
    /\ T1 \in DependentsOf(targetsFrom, last.key)
    /\ \E i \in 1..Len(calls) :
          /\ calls[i].op = "update" /\ calls[i].ok
          /\ calls[i].key = T1 /\ calls[i].by = last.key
          /\ Has(calls[i].prev.ann, ReplicatedAtAnnotation)
          /\ ~Has(calls[i].prev.ann, ReplicatedFromVersionAnnotation)
          /\ calls[i].prev.data = Empty
          /\ apiStore[T1].data = calls[i].src.data

\* the object carries an ill-formed replication annotation: a non-boolean
\* replicate-once or replication-allowed, an allowed namespace that does not
\* compile, or replicate-to annotations that do not parse
IllFormed(object) ==
    \/ /\ Has(object.ann, ReplicateOnceAnnotation)
       /\ ~ParseBool(object.ann[ReplicateOnceAnnotation]).ok
    \/ /\ Has(object.ann, ReplicationAllowedAnnotation)
       /\ ~ParseBool(object.ann[ReplicationAllowedAnnotation]).ok
    \/ /\ Has(object.ann, ReplicationAllowedNsAnnotation)
       /\ \E i \in 1..Len(object.ann[ReplicationAllowedNsAnnotation]) :
             LET ns == object.ann[ReplicationAllowedNsAnnotation][i]
             IN  ns # "" /\ ~validName(ns) /\ ~RegexCompiles(ns)
    \/ getReplicationTargets(object).err # ""

\* C16: the handling of an event makes no adapter call whose source or whose
\* target carries an ill-formed replication annotation
NoActionOnIllFormed ==
    \A i \in 1..Len(calls) :
        ~IllFormed(calls[i].src) /\ ~IllFormed(calls[i].prev)

\* the ObjectAdded pass of an object that carries an annotation with the
\* prefix and an unknown name makes no call and leaves the four maps alone
UnknownLeavesGraph ==
    ( /\ last' # last /\ last'.h = "ObjectAdded"
      /\ ~IgnoreUnknown
      /\ last'.key \in DOMAIN objectStore'
      /\ DOMAIN objectStore'[last'.key].ann \cap PrefixedUnknown # {} ) =>
        /\ calls' = <<>>
        /\ UNCHANGED << targetsTo, targetsFrom, watchedTargets, watchedPatterns >>

\* C17: with IgnoreUnknown = false, ObjectAdded on an object that carries an
\* unknown annotation with the configured prefix issues no adapter call and
\* leaves targetsTo, targetsFrom, watchedTargets and watchedPatterns unchanged
UnknownAnnotationNoEffect == [][UnknownLeavesGraph]_vars

\* the source has been replicated to one target, has then been given another
\* target together with an unknown annotation, and its ObjectAdded has left
\* the record and the replica of the first target in place
UnknownSourceIgnored ==
    /\ ~IgnoreUnknown
    /\ last.h = "ObjectAdded" /\ last.key = S1
    /\ S1 \in DOMAIN objectStore
    /\ DOMAIN objectStore[S1].ann \cap PrefixedUnknown # {}
    /\ calls = <<>>
    /\ S1 \in DOMAIN targetsTo /\ targetsTo[S1] = << T1 >>
    /\ T1 \in DOMAIN apiStore /\ <<"t1", "src">> \notin DOMAIN apiStore

\* C18: the handlers of one replicator never overlap: the object controller
\* and the namespace controller are never both inside a handler
HandlersNeverOverlap ==
    ~( position.objectController = "handler"
       /\ position.namespaceController = "handler" )

\* the numbers of the calls of the last pass that the API server accepted
AcceptedCalls == { i \in 1..Len(calls) : calls[i].ok }

\* the last of the accepted calls of the last pass on the key
LastAccepted(key) ==
    CHOOSE i \in AcceptedCalls :
        /\ calls[i].key = key
        /\ \A j \in AcceptedCalls : calls[j].key = key => j <= i

\* after a pass, the object store holds, for each key that the pass wrote,
\* the object that the last accepted Install, Update or Clear returned, and
\* does not hold the key when the last accepted call was a Delete
StoreHoldsLastMutation ==
    \A key \in { calls[i].key : i \in AcceptedCalls } :
        LET c == calls[LastAccepted(key)]
        IN  IF c.op = "delete" THEN key \notin DOMAIN objectStore
            ELSE /\ key \in DOMAIN objectStore
                 /\ objectStore[key] = [c.obj EXCEPT !.rv = [k |-> key, n |-> versions[key]]]
                 /\ objectStore[key] = apiStore[key]

\* the object store changes at a key only when the informer delivers an event
\* of the key or when the engine makes an accepted call on the key
StoreChangesByEventOrCall ==
    \A key \in DOMAIN objectStore \cup DOMAIN objectStore' :
        ( \/ (key \in DOMAIN objectStore) # (key \in DOMAIN objectStore')
          \/ objectStore'[key] # objectStore[key] ) =>
            /\ last'.h \in { "ObjectAdded", "ObjectDeleted", "NamespaceAdded" }
            /\ \/ last'.key = key
               \/ \E i \in 1..Len(calls') : calls'[i].ok /\ calls'[i].key = key

\* C19, amended: after every accepted Install, Update or Clear the store
\* holds the returned object under the target's key, after every accepted
\* Delete the key is absent, and this remains so until the informer delivers
\* the next event of that key or the engine writes the key again
StoreFollowsEngine ==
    [][ (last' # last => StoreHoldsLastMutation') /\ StoreChangesByEventOrCall ]_vars

\* the object store never goes back to an older version of an object
StoreKeepsNewest ==
    \A key \in DOMAIN objectStore \cap DOMAIN objectStore' :
        objectStore'[key].rv.n >= objectStore[key].rv.n

\* C19 as stated: the store holds the result of the engine's last mutation
\* until a newer change of that object is observed
StoreFollowsEngineUntilNewer ==
    [][ (last' # last => StoreHoldsLastMutation') /\ StoreKeepsNewest ]_vars

\* the engine has updated a replica and the object store holds the returned
\* object, while the informer still holds an earlier event of the replica
StoreAheadOfInformer ==
    \E i \in AcceptedCalls :
        /\ calls[i].op \in { "install", "update", "clear" }
        /\ ~IsNil(calls[i].prev)
        /\ objectStore[calls[i].key] = apiStore[calls[i].key]
        /\ objectStore[calls[i].key].rv.n = calls[i].prev.rv.n + 1
        /\ \E j \in 1..Len(queue) :
              /\ queue[j].key = calls[i].key
              /\ Len(queue[j].deltas) >= 2

\* the resource version that the API server holds for the key of call i of
\* the sequence, when the call is made in a pass that started with the API
\* server's objects api and versions ver (NoRV: it holds no object of the key)
VersionBefore(cs, i, api, ver) ==
    LET key == cs[i].key
        earlier == { j \in 1..(i - 1) : cs[j].ok /\ cs[j].key = key }
        writes(m) == Cardinality({ j \in earlier : j <= m /\ cs[j].op # "delete" })
        base == IF key \in DOMAIN ver THEN ver[key] ELSE 0
        m == CHOOSE j \in earlier : \A k \in earlier : k <= j
    IN  IF earlier = {}
        THEN IF key \in DOMAIN api THEN api[key].rv ELSE NoRV
        ELSE IF cs[m].op = "delete" THEN NoRV
        ELSE [k |-> key, n |-> base + writes(m)]

\* a call is accepted only when its object carries the resource version that
\* the API server holds for the key, none for a creation
OutdatedFails ==
    \A i \in 1..Len(calls') :
        calls'[i].ok => calls'[i].obj.rv = VersionBefore(calls', i, apiStore, versions)

\* the object store after the informer has stored or removed the object of
\* the event and before the handler runs
StoreAtEntry(key) ==
    IF last'.h = "ObjectAdded" /\ key = last'.key THEN {NextDelta.obj}
    ELSE IF last'.h = "ObjectDeleted" /\ key = last'.key THEN {}
    ELSE IF key \in DOMAIN objectStore THEN {objectStore[key]}
    ELSE {}

\* a pass whose calls on a key were all refused leaves the object store as it
\* was for that key
RefusedLeavesStore ==
    \A key \in { calls'[i].key : i \in 1..Len(calls') } :
        (\A i \in 1..Len(calls') : calls'[i].key = key => ~calls'[i].ok) =>
            StoreAtEntry(key)
              = IF key \in DOMAIN objectStore' THEN {objectStore'[key]} ELSE {}

\* C20: every update, creation and deletion is made against the resource
\* version of the target, so that an outdated one fails; and when an adapter
\* call returns an error the engine writes nothing to the object store for
\* that target, and the handler returns
ErrorsLeaveStore ==
    [][ (last' # last /\ last'.h \in { "ObjectAdded", "ObjectDeleted", "NamespaceAdded" })
          => (OutdatedFails /\ RefusedLeavesStore) ]_vars

\* a handler has made a call with the resource version of an object that the
\* user had changed since; the API server has refused it, the object store
\* holds what it held, and the handler has returned
OutdatedCallRefused ==
    /\ ~Rejected
    /\ \E i \in 1..Len(calls) :
          /\ ~calls[i].ok
          /\ ~IsNil(calls[i].prev)
          /\ calls[i].key \in DOMAIN objectStore
          /\ objectStore[calls[i].key] = calls[i].prev
          /\ calls[i].key \in DOMAIN apiStore
          /\ apiStore[calls[i].key].rv # calls[i].obj.rv
\* the replicas whose source does not exist or does not target them any more
Orphans ==
    { t \in DOMAIN apiStore :
        /\ Has(apiStore[t].ann, ReplicatedByAnnotation)
        /\ LET s == apiStore[t].ann[ReplicatedByAnnotation]
           IN  \/ s \notin DOMAIN apiStore
               \/ ~isReplicatedTo(apiStore[s], apiStore[t]).ok }

\* C21: a rejected adapter call is retried by the ObjectAdded passes of the
\* next resync: when every event has been handled and a resync was queued
\* after the last rejected call, the cluster is as it is when no call was ever
\* rejected: every key that an existing plain source targets in a known
\* namespace holds an up-to-date replica of that source (unless it holds an
\* object that the source did not create, or the engine vacated it without
\* the informer reporting it), and no replica is left without its source
RetriedAfterFailure ==
    (Drained /\ ~failedSince) =>
        /\ \A p \in PushPairs :
              PlainSource(apiStore[p[1]]) =>
                  \/ IsReplicaOf(p[2], p[1]) /\ ReplicaUpToDate(p[2], p[1])
                  \/ p[2] \in DOMAIN apiStore /\ ~IsReplicaOf(p[2], p[1])
                  \/ p[2] \in unreported
        /\ Orphans = {}

\* the one adapter call made so far, the Install of the replica of the one
\* source there is, was rejected; a resync followed, and the replica is in place
RetriedInstallInPlace ==
    /\ Drained /\ Rejected /\ ~failedSince
    /\ userOps = MaxUserOps - 1
    /\ \E p \in PushPairs :
          /\ PlainSource(apiStore[p[1]])
          /\ IsReplicaOf(p[2], p[1])
          /\ ReplicaUpToDate(p[2], p[1])
          /\ apiStore[p[2]].data = apiStore[p[1]].data

\* the step is a call of a handler of the object informer
ObjectStep == last' # last /\ last'.h \in {"ObjectAdded", "ObjectDeleted"}

\* the object is a listed item or a later version of it
IsListedItem(object) ==
    LET key == KeyOf(object)
    IN  /\ key \in DOMAIN listedItems
        /\ listedItems[key].last = 0 \/ object.rv.n <= listedItems[key].last

\* the first handler call finds every listed item in the object store, as listed
FirstEventSeesAll ==
    (event = NoEvent /\ event' # NoEvent) =>
        /\ DOMAIN listedItems # {}
        /\ \A key \in DOMAIN listedItems :
              /\ key \in DOMAIN objectStore
              /\ objectStore[key].rv = [k |-> key, n |-> 1]

\* a listed item is passed to the add handler the first time, to the update
\* handler every other time, and to the delete handler when it is deleted
ListedAddedOnce ==
    ObjectStep =>
        LET object == NextDelta.obj
            key    == KeyOf(object)
        IN  IsListedItem(object) =>
                IF NextDelta.t = "del" THEN event' = [type |-> "delete", key |-> key]
                ELSE IF listedItems[key].status = "listed"
                THEN event' = [type |-> "add", key |-> key]
                ELSE event' = [type |-> "update", key |-> key]

\* C22 as stated: every listed item is in the object store before the first
\* handler call, a listed item is passed to the add handler exactly once, the
\* first time, and its later changes and its deletion are passed to the
\* update and the delete handler
ListedItemsAddedOnce == [][FirstEventSeesAll /\ ListedAddedOnce]_vars

\* as ListedAddedOnce, but a listed item that the engine itself deleted is
\* passed to either the add or the update handler after the first time
ListedAddedFirst ==
    ObjectStep =>
        LET object == NextDelta.obj
            key    == KeyOf(object)
        IN  IsListedItem(object) =>
                IF NextDelta.t = "del" THEN event' = [type |-> "delete", key |-> key]
                ELSE IF listedItems[key].status = "listed"
                THEN event' = [type |-> "add", key |-> key]
                ELSE IF listedItems[key].by # "engine"
                THEN event' = [type |-> "update", key |-> key]
                ELSE event' \in { [type |-> "add", key |-> key],
                                  [type |-> "update", key |-> key] }

\* C22, amended: every listed item is in the object store before the first
\* handler call; the first call with a listed item is a call of the add
\* handler; its later changes are passed to the update handler and its
\* deletion to the delete handler, except that the changes of an item that
\* the engine itself deleted may be passed to the add handler again
ListedItemsAddedFirst == [][FirstEventSeesAll /\ ListedAddedFirst]_vars

\* a listed item was passed to the add handler and a later change of it to
\* the update handler
ListedItemUpdated ==
    /\ last.h = "ObjectAdded"
    /\ last.key \in DOMAIN listedItems
    /\ listedItems[last.key] = [status |-> "added", last |-> 0, by |-> ""]
    /\ last.key \notin toAdd
    /\ event = [type |-> "update", key |-> last.key]
    /\ objectStore[last.key].rv.n > 1

\* C23: no key is one of its own targets, neither in targetsTo nor in
\* targetsFrom
NoSelfTarget ==
    /\ \A k \in DOMAIN targetsTo : k \notin Range(targetsTo[k])
    /\ \A k \in DOMAIN targetsFrom : k \notin Range(targetsFrom[k])

\* C24 as stated: every entry of targetsTo[k] is the key of an object of the
\* object store that carries replicated-by = k
TargetsToAreReplicas ==
    \A k \in DOMAIN targetsTo : \A t \in Range(targetsTo[k]) :
        /\ t \in DOMAIN objectStore
        /\ CarriesReplicatedBy(objectStore[t], k)

\* C24, amended: every entry of targetsTo[k] is a key, other than k, in a
\* known namespace, that the replicate-to annotations of the object k of the
\* object store name; the key need not hold an object, nor one that k created
TargetsToAreDeclared ==
    \A k \in DOMAIN targetsTo :
        /\ k \in DOMAIN objectStore
        /\ ~Has(objectStore[k].ann, ReplicatedByAnnotation)
        /\ \A t \in Range(targetsTo[k]) :
              /\ t # k
              /\ t[1] \in namespaceStore
              /\ StillTargeted(objectStore[k], t)

\* a source has two recorded targets: one holds the replica that the source
\* created, the other holds no object or an object that the source did not create
RecordedTargetNotReplica ==
    \E k \in DOMAIN targetsTo : \E t, u \in Range(targetsTo[k]) :
        /\ t \in DOMAIN objectStore
        /\ CarriesReplicatedBy(objectStore[t], k)
        /\ ~(u \in DOMAIN objectStore /\ CarriesReplicatedBy(objectStore[u], k))

\* the entries of targetsFrom[k] are objects of the object store whose
\* replicate-from annotation resolves to k
DependentsRefer(from, store, k) ==
    \A t \in Range(from[k]) :
        /\ t \in DOMAIN store
        /\ resolveAnnotation(store[t], ReplicateFromAnnotation) = [val |-> k, ok |-> TRUE]

\* C25 as stated: in every state, every entry of targetsFrom[k] is an object
\* of the object store whose resolved replicate-from is k
TargetsFromAreDependents ==
    \A k \in DOMAIN targetsFrom : DependentsRefer(targetsFrom, objectStore, k)

\* C25, amended: the ObjectAdded and ObjectDeleted passes of k leave in
\* targetsFrom[k] only objects of the object store whose resolved
\* replicate-from is k, and the ObjectAdded pass of a target registers it with
\* the source it names; between two passes of k, targetsFrom[k] may name
\* targets that were deleted or name another source since
TargetsFromPrunedBySource ==
    [][ /\ ( /\ ObjectStep
             /\ getReplicationTargets(NextDelta.obj).err = ""
             /\ last'.key \in DOMAIN targetsFrom' )
           => DependentsRefer(targetsFrom', objectStore', last'.key)
        /\ ( /\ ObjectAddedStep
             /\ getReplicationTargets(NextDelta.obj).isNil
             /\ ~Has(NextDelta.obj.ann, ReplicatedByAnnotation)
             /\ Has(NextDelta.obj.ann, ReplicateFromAnnotation) )
           => LET from == resolveAnnotation(NextDelta.obj, ReplicateFromAnnotation).val
              IN  /\ from \in DOMAIN targetsFrom'
                  /\ last'.key \in Range(targetsFrom'[from]) ]_vars

\* the ObjectAdded pass of a source left one of its two targets registered:
\* the other one had been registered and was deleted since
DeletedDependentPruned ==
    /\ last.h = "ObjectAdded"
    /\ last.key = S1
    /\ S1 \in DOMAIN targetsFrom
    /\ targetsFrom[S1] = << <<"t1", "src">> >>
    /\ T1 \in DOMAIN versions
    /\ T1 \notin DOMAIN objectStore
    /\ T1 \notin Queued(queue) /\ current = <<>>
    /\ \E i \in 1..Len(calls) : calls[i].op = "update" /\ calls[i].ok

\* ObjectAdded returns at once for the object: it has an annotation that the
\* engine does not know, or annotations that it cannot parse
Ignored(object) ==
    \/ UnknownAnnotations(object.ann) # {} /\ ~IgnoreUnknown
    \/ getReplicationTargets(object).err # ""

\* C26 as stated: watchedTargets[k] and watchedPatterns[k] are non-empty only
\* while the object k is in the object store and has a replicate-to or a
\* replicate-to-namespaces annotation
WatchedOnlyWhileDeclared ==
    /\ \A k \in DOMAIN watchedTargets : watchedTargets[k] # <<>>
    /\ \A k \in DOMAIN watchedPatterns : watchedPatterns[k] # <<>>
    /\ \A k \in WatchingSources :
          /\ k \in DOMAIN objectStore
          /\ \/ Has(objectStore[k].ann, ReplicateToAnnotation)
             \/ Has(objectStore[k].ann, ReplicateToNsAnnotation)

\* C26, amended: a watched key k is in the object store; unless ObjectAdded
\* ignores the object k as it is now (unknown or ill-formed annotations), in
\* which case the maps keep what an earlier version of k declared, the object
\* has no replicated-by annotation, and watchedTargets[k] and
\* watchedPatterns[k] are the targets and patterns that its replicate-to and
\* replicate-to-namespaces annotations declare
WatchedAsDeclaredUnlessIgnored ==
    /\ \A k \in DOMAIN watchedTargets : watchedTargets[k] # <<>>
    /\ \A k \in DOMAIN watchedPatterns : watchedPatterns[k] # <<>>
    /\ \A k \in WatchingSources :
          /\ k \in DOMAIN objectStore
          /\ ~Ignored(objectStore[k]) =>
                LET t == getReplicationTargets(objectStore[k])
                IN  /\ ~Has(objectStore[k].ann, ReplicatedByAnnotation)
                    /\ ~t.isNil
                    /\ t.targets = (IF k \in DOMAIN watchedTargets
                                     THEN watchedTargets[k] ELSE <<>>)
                    /\ t.patterns = (IF k \in DOMAIN watchedPatterns
                                      THEN watchedPatterns[k] ELSE <<>>)

\* the engine watches the targets of a source whose annotations it knows,
\* after it stopped watching those of an earlier version of the source
WatchedSourceDeclares ==
    /\ last.h = "ObjectAdded"
    /\ last.key \in DOMAIN watchedTargets
    /\ ~Ignored(objectStore[last.key])
    /\ objectStore[last.key].rv.n > 1
    /\ getReplicationTargets(objectStore[last.key]).targets = watchedTargets[last.key]

\* the Install calls that the last handler invocation issued for the key
InstallsOn(key) == { i \in CallsOf(key) : calls[i].op = "install" }

\* C27: an invocation of ObjectDeleted issues at most one Install for the key
\* it was called for, accepted or not, however many sources wait for the key;
\* the Install is its last adapter call and creates the key for a source that
\* is not the object removed
AtMostOneHandOffInstall ==
    last.h = "ObjectDeleted" =>
        /\ Cardinality(InstallsOn(last.key)) <= 1
        /\ \A i \in InstallsOn(last.key) :
              /\ i = Len(calls)
              /\ calls[i].by # last.key
              /\ \A j \in 1..Len(calls) : calls[j].op = "install" => j = i

\* ObjectDeleted was handled for a key that two sources waited for, and the
\* invocation issued one Install for the key
OneInstallForTwoWaiting ==
    /\ last.h = "ObjectDeleted"
    /\ Cardinality(Waiting) >= 2
    /\ Cardinality(InstallsOn(last.key)) = 1

\* the pairs of PulledPairs whose source carries replicate-from itself
ChainedPairs ==
    { p \in PulledPairs : resolveAnnotation(objectStore[p[2]], ReplicateFromAnnotation).ok }

\* C28 as stated: no Update is issued for a source that carries replicate-from;
\* isReplicationAllowed reports every source that carries replicate-from as
\* explicitly disallowed, and a pass that evaluated a target of such a source
\* makes only Clear calls on the target and leaves it without
\* replicated-from-version
ChainedSourceDisallowed ==
    /\ \A i \in 1..Len(calls) :
          calls[i].op = "update" =>
              ~resolveAnnotation(calls[i].src, ReplicateFromAnnotation).ok
    /\ \A p \in ChainedPairs :
          /\ isReplicationAllowed(objectStore[p[1]], objectStore[p[2]]).nok
          /\ \A i \in CallsOf(p[1]) : calls[i].op = "clear"
          /\ Accepted => ~Has(objectStore[p[1]].ann, ReplicatedFromVersionAnnotation)

\* C28, amended: no Update is issued for a source that carries replicate-from,
\* and isReplicationAllowed never allows such a source; it reports it as
\* explicitly disallowed, and a pass that evaluated one of its targets makes
\* only Clear calls on the target and leaves it without
\* replicated-from-version, unless a permission annotation of the source is
\* ill-formed: then the report is an error that is not a disallowance, and the
\* pass makes no adapter call on the target, which keeps what it pulled before
ChainedSourceNeverPulled ==
    /\ \A i \in 1..Len(calls) :
          calls[i].op = "update" =>
              ~resolveAnnotation(calls[i].src, ReplicateFromAnnotation).ok
    /\ \A p \in ChainedPairs :
          LET allowed == isReplicationAllowed(objectStore[p[1]], objectStore[p[2]])
              b == ParseBool(objectStore[p[2]].ann[ReplicationAllowedAnnotation])
              illFormed == /\ Has(objectStore[p[2]].ann, ReplicationAllowedAnnotation)
                           /\ ~b.ok
          IN  /\ ~allowed.ok
              /\ allowed.nok = ~illFormed
              /\ allowed.nok =>
                    /\ \A i \in CallsOf(p[1]) : calls[i].op = "clear"
                    /\ Accepted =>
                          ~Has(objectStore[p[1]].ann, ReplicatedFromVersionAnnotation)
              /\ ~allowed.nok => CallsOf(p[1]) = {}

\* the source of a target that had pulled its payload became a target itself,
\* and the pass for the source cleared the target
ChainedTargetCleared ==
    \E p \in ChainedPairs :
        /\ last.key = p[2]
        /\ \E i \in CallsOf(p[1]) : calls[i].op = "clear" /\ calls[i].ok
        /\ ~Has(objectStore[p[1]].ann, ReplicatedFromVersionAnnotation)

\* the object submitted is a copy of the object the store held under its key,
\* with its payload, in which the permission annotations are the source's
PermissionsCopied(c) ==
    /\ c.op = "install"
    /\ c.obj.data = c.prev.data
    /\ c.obj.rv = c.prev.rv
    /\ \A a \in {ReplicationAllowedAnnotation, ReplicationAllowedNsAnnotation} :
          /\ Has(c.obj.ann, a) = Has(c.src.ann, a)
          /\ Has(c.obj.ann, a) => c.obj.ann[a] = c.src.ann[a]
    /\ \A a \in (DOMAIN c.obj.ann \cup DOMAIN c.prev.ann)
                  \ {ReplicationAllowedAnnotation, ReplicationAllowedNsAnnotation} :
          /\ Has(c.obj.ann, a) = Has(c.prev.ann, a)
          /\ Has(c.obj.ann, a) => c.obj.ann[a] = c.prev.ann[a]

\* the targets of the source of an ObjectAdded step that the step finds in the
\* object store as replicas of the source without replicate-from, the source
\* being a direct push source, and that need no data update
UpToDateTargets ==
    IF ~(ObjectAddedStep /\ last'.key \in DOMAIN objectStore') THEN {}
    ELSE LET source == objectStore'[last'.key]
             t == getReplicationTargets(source)
         IN  IF \/ t.isNil \/ t.err # ""
                \/ Has(source.ann, ReplicateFromAnnotation)
                \/ Has(source.ann, ReplicatedByAnnotation)
             THEN {}
             ELSE { k \in Range(t.targets) \cap DOMAIN objectStore :
                      /\ isReplicatedBy(objectStore[k], source).ok
                      /\ ~Has(objectStore[k].ann, ReplicateFromAnnotation)
                      /\ ~needsDataUpdate(objectStore[k], source).ok }

\* the calls of the step on the key
StepCallsOf(key) == { i \in 1..Len(calls') : calls'[i].key = key }

\* C29 as stated: for a target that needs no data update, the step installs
\* the copy of the target with the permission annotations of the source when
\* needsAllowedAnnotationsUpdate is true, and makes no call when it is false
AllowedStepAsStated ==
    \A k \in UpToDateTargets :
        LET source == objectStore'[last'.key]
            needsAllowed == needsAllowedAnnotationsUpdate(objectStore[k], source)
        IN  IF needsAllowed.ok
            THEN /\ Cardinality(StepCallsOf(k)) = 1
                 /\ \A i \in StepCallsOf(k) : PermissionsCopied(calls'[i])
            ELSE StepCallsOf(k) = {}
PermissionsFollowSource == [][AllowedStepAsStated]_vars

\* C29, amended: for a target that needs no data update, the step installs the
\* copy of the target with the permission annotations of the source when
\* needsDataUpdate reports that the target was replicated once and
\* needsAllowedAnnotationsUpdate is true, and makes no call otherwise
AllowedStep ==
    \A k \in UpToDateTargets :
        LET source == objectStore'[last'.key]
            needs == needsDataUpdate(objectStore[k], source)
            needsAllowed == needsAllowedAnnotationsUpdate(objectStore[k], source)
        IN  IF needs.once /\ needsAllowed.ok
            THEN /\ Cardinality(StepCallsOf(k)) = 1
                 /\ \A i \in StepCallsOf(k) : PermissionsCopied(calls'[i])
            ELSE StepCallsOf(k) = {}
PermissionsFollowSourceOnce == [][AllowedStep]_vars

\* the replica of a source pushed once carries the permission annotations of
\* a later version of the source and the payload of the version it was
\* replicated from
PermissionsInstalled ==
    /\ last.h = "ObjectAdded"
    /\ last.key = S1
    /\ Len(calls) = 1
    /\ calls[1].ok
    /\ PermissionsCopied(calls[1])
    /\ calls[1].key \in DOMAIN objectStore
    /\ objectStore[calls[1].key] = apiStore[calls[1].key]
    /\ objectStore[calls[1].key].ann[ReplicatedFromVersionAnnotation] # objectStore[S1].rv
    /\ needsAllowedAnnotationsUpdate(calls[1].prev, calls[1].src).ok
    /\ ~needsAllowedAnnotationsUpdate(objectStore[calls[1].key], objectStore[S1]).ok

\* the accepted Install calls of the last pass for a source that carries
\* replicate-from, each the last call of the pass on its key
MetaInstalls ==
    { i \in FromInstalls :
        calls[i].ok /\ \A j \in CallsOf(calls[i].key) : j <= i }

Objects ==
    { apiStore[k] : k \in DOMAIN apiStore } \cup { objectStore[k] : k \in DOMAIN objectStore }

\* the object carries neither replication-allowed nor
\* replication-allowed-namespaces
Unpermitting(object) ==
    /\ ~Has(object.ann, ReplicationAllowedAnnotation)
    /\ ~Has(object.ann, ReplicationAllowedNsAnnotation)

\* C31: without --allow-all, isReplicationAllowed returns not allowed,
\* explicitly disallowed and an error for every target and every source that
\* carries neither replication-allowed nor replication-allowed-namespaces,
\* and no pass makes an Update from such a source
UnpermittingSourceDisallowed ==
    ~AllowAll =>
        /\ \A object \in Objects : \A sourceObject \in Objects :
              Unpermitting(sourceObject) =>
                  LET allowed == isReplicationAllowed(object, sourceObject)
                  IN  ~allowed.ok /\ allowed.nok /\ allowed.err # ""
        /\ \A i \in 1..Len(calls) :
              calls[i].op = "update" => ~Unpermitting(calls[i].src)

\* a pass evaluated a target whose source carries no permission annotation,
\* after the target had pulled the payload of an earlier version of the source
UnpermittingSourceEvaluated ==
    /\ ~AllowAll
    /\ \E p \in PulledPairs :
          /\ Unpermitting(objectStore[p[2]])
          /\ \E i \in CallsOf(p[1]) :
                /\ calls[i].op = "clear"
                /\ Has(calls[i].prev.ann, ReplicatedFromVersionAnnotation)

\* C32: when no controller is inside a handler, every replica in the object
\* store whose source exists and still targets it is recorded in the
\* targetsTo entry of the source, whatever the interleaving of NamespaceAdded
\* with ObjectAdded and ObjectDeleted was
NoTargetLost ==
    ( /\ position.objectController = "idle"
      /\ position.namespaceController = "idle" ) =>
        \A k \in DOMAIN objectStore : \A source \in DOMAIN objectStore :
            ( /\ CarriesReplicatedBy(objectStore[k], source)
              /\ isReplicatedTo(objectStore[source], objectStore[k]).ok ) =>
                /\ source \in DOMAIN targetsTo
                /\ k \in Range(targetsTo[source])

\* the Install and Delete calls of the step on the key
OwnerCallsOf(key) ==
    { i \in StepCallsOf(key) : calls'[i].op \in {"install", "delete"} }

\* a step of a handler leaves every replica to the source that created it: an
\* ObjectAdded or ObjectDeleted of an object that is neither the replica nor
\* its source makes no Install and no Delete on the replica, which stays in
\* the object store with its replicated-by annotation, and a NamespaceAdded
\* makes such calls on the replica only for its source
OwnerStep ==
    (last' # last) =>
        \A k \in DOMAIN objectStore :
            Has(objectStore[k].ann, ReplicatedByAnnotation) =>
                LET owner == objectStore[k].ann[ReplicatedByAnnotation]
                IN  /\ ( /\ last'.h \in {"ObjectAdded", "ObjectDeleted"}
                         /\ last'.key \notin {k, owner} ) =>
                            /\ OwnerCallsOf(k) = {}
                            /\ k \in DOMAIN objectStore'
                            /\ CarriesReplicatedBy(objectStore'[k], owner)
                    /\ last'.h = "NamespaceAdded" =>
                            /\ \A i \in OwnerCallsOf(k) : calls'[i].by = owner
                            /\ k \in DOMAIN objectStore'
                            /\ CarriesReplicatedBy(objectStore'[k], owner)

\* C33: while a key holds the replica of one source, no event of another
\* source that targets the key makes an Install or a Delete on it, and the
\* replica stays the replica of the first source
OwnershipNeverAlternates == [][OwnerStep]_vars

\* two sources target a key that holds the replica of one of them, and the
\* ObjectAdded of the other one made no call on the key
OtherSourceKeptOut ==
    /\ last.h = "ObjectAdded"
    /\ last.key \in DOMAIN objectStore
    /\ \E k \in DOMAIN objectStore :
          /\ Has(objectStore[k].ann, ReplicatedByAnnotation)
          /\ LET owner == objectStore[k].ann[ReplicatedByAnnotation]
             IN  /\ owner # last.key
                 /\ owner \in DOMAIN objectStore
                 /\ isReplicatedTo(objectStore[owner], objectStore[k]).ok
                 /\ isReplicatedTo(objectStore[last.key], objectStore[k]).ok
                 /\ last.key \in DOMAIN targetsTo
                 /\ k \in Range(targetsTo[last.key])
                 /\ CallsOf(k) = {}

\* C34: no Install is issued for a source on the key of the source itself
NoSelfInstall ==
    \A i \in 1..Len(calls) :
        calls[i].op = "install" => calls[i].key # calls[i].by

\* C35: no Install is issued for a source object that carries replicated-by,
\* and no object of the store that carries replicated-by has an entry in
\* targetsTo, watchedTargets or watchedPatterns
ReplicaNeverPushes ==
    /\ \A i \in 1..Len(calls) :
          calls[i].op = "install" => ~Has(calls[i].src.ann, ReplicatedByAnnotation)
    /\ \A k \in DOMAIN objectStore :
          Has(objectStore[k].ann, ReplicatedByAnnotation) =>
              k \notin (DOMAIN targetsTo \cup WatchingSources)

\* the Clear and Update calls of the step
PullCalls == { i \in 1..Len(calls') : calls'[i].op \in {"clear", "update"} }

\* a Clear or an Update of the step is made on an object of the store that
\* carries replicate-from, in the ObjectAdded of that object or in the
\* ObjectAdded or ObjectDeleted of the object that its replicate-from resolves
\* to, and the step leaves every object of the store as it was but the object
\* of its event and the objects of its calls
PullStep ==
    (last' # last) =>
        /\ \A i \in PullCalls :
              LET from == resolveAnnotation(calls'[i].prev, ReplicateFromAnnotation)
              IN  /\ ~IsNil(calls'[i].prev)
                  /\ from.ok
                  /\ calls'[i].obj.ann[ReplicateFromAnnotation]
                        = calls'[i].prev.ann[ReplicateFromAnnotation]
                  /\ \/ last'.h = "ObjectAdded" /\ last'.key = calls'[i].key
                     \/ /\ last'.h \in {"ObjectAdded", "ObjectDeleted"}
                        /\ last'.key = from.val
                  /\ calls'[i].op = "update" => calls'[i].by = from.val
        /\ \A k \in DOMAIN objectStore :
              (k # last'.key /\ StepCallsOf(k) = {}) =>
                  /\ k \in DOMAIN objectStore'
                  /\ objectStore'[k] = objectStore[k]

\* C36: Clear and Update are issued only on objects that carry replicate-from;
\* in the event of a source only on objects whose replicate-from resolves to
\* the key of that source; the other objects are left as they are
PullOnlyOnDependents == [][PullStep]_vars

\* the ObjectAdded of a source updated the dependent that names it and made
\* no call on the object that pulls from that dependent
DependentUpdatedOthersLeft ==
    /\ last.h = "ObjectAdded"
    /\ \E i \in 1..Len(calls) :
          /\ calls[i].op = "update" /\ calls[i].ok
          /\ calls[i].key # last.key
          /\ resolveAnnotation(calls[i].prev, ReplicateFromAnnotation).val = last.key
          /\ \E k \in DOMAIN objectStore :
                /\ resolveAnnotation(objectStore[k], ReplicateFromAnnotation).ok
                /\ resolveAnnotation(objectStore[k], ReplicateFromAnnotation).val
                      = calls[i].key
                /\ CallsOf(k) = {}

\* the Delete calls of the step on the key
DeletesOn(key) == { i \in StepCallsOf(key) : calls'[i].op = "delete" }

\* the store cannot hand out the object of the key: it carries annotations
\* that the engine does not know, and they are not ignored
Unreadable(key) ==
    /\ key \in DOMAIN objectStore
    /\ ~IgnoreUnknown
    /\ UnknownAnnotations(objectStore[key].ann) # {}

\* the replica that an ObjectAdded step has handled and left in the store: it
\* carries replicated-by of another object and is not ignored for its own
\* annotations
ReplicaHandled(key) ==
    /\ key \in DOMAIN objectStore'
    /\ Has(objectStore'[key].ann, ReplicatedByAnnotation)
    /\ objectStore'[key].ann[ReplicatedByAnnotation] # key
    /\ ~Ignored(objectStore'[key])

\* the statement without the cases of a source that cannot be read: the step
\* issues a Delete on the replica exactly when the source is absent or its
\* annotations do not target the replica
ReplicaStepAsStated ==
    (ObjectAddedStep /\ ReplicaHandled(last'.key)) =>
        LET key == last'.key
            object == objectStore'[key]
            val == object.ann[ReplicatedByAnnotation]
        IN  (DeletesOn(key) # {}) =
               ( \/ val \notin DOMAIN objectStore
                 \/ ~isReplicatedTo(objectStore[val], object).ok )

\* C37 as stated: ObjectAdded of an object that carries replicated-by issues
\* a Delete on it whenever the source is absent or its annotations do not
\* target the object
OrphanAlwaysDeleted == [][ReplicaStepAsStated]_vars

\* an ObjectAdded step issues a Delete on its own object only when the object
\* carries replicated-by and the store does not hold the source it names or
\* holds a source that does not target the object; and for a replica that is
\* in the store after the step, the step has issued no Delete when the source
\* cannot be read or its annotations do not parse, and otherwise a Delete
\* exactly when the source was absent or did not target the replica
ReplicaStep ==
    ObjectAddedStep =>
        LET key == last'.key
        IN  /\ \A i \in DeletesOn(key) :
                  LET object == calls'[i].obj
                      val == object.ann[ReplicatedByAnnotation]
                  IN  /\ Has(object.ann, ReplicatedByAnnotation)
                      /\ \/ val \notin DOMAIN objectStore
                         \/ ~isReplicatedTo(objectStore[val], object).ok
            /\ ReplicaHandled(key) =>
                  LET object == objectStore'[key]
                      val == object.ann[ReplicatedByAnnotation]
                      to == isReplicatedTo(objectStore[val], object)
                  IN  IF val \notin DOMAIN objectStore THEN DeletesOn(key) # {}
                      ELSE IF Unreadable(val) \/ to.err # "" THEN DeletesOn(key) = {}
                      ELSE (DeletesOn(key) # {}) = ~to.ok

\* C37: ObjectAdded of an object that carries replicated-by issues a Delete on
\* the object when the store does not hold the source or the source, readable
\* and well-formed, does not target the object any more, and no Delete when
\* the source exists and targets it, cannot be read or does not parse, from
\* the first event after the start on
OrphanDeletedAtStart == [][ReplicaStep]_vars

\* the dependency graph is empty, and the first ObjectAdded of a listed
\* replica whose source does not exist has deleted the replica
ListedOrphanDeleted ==
    /\ last.h = "ObjectAdded"
    /\ DOMAIN targetsTo = {} /\ DOMAIN targetsFrom = {} /\ WatchingSources = {}
    /\ last.key \in DOMAIN listedItems
    /\ last.key \notin DOMAIN objectStore
    /\ Len(calls) = 1
    /\ calls[1].op = "delete" /\ calls[1].ok /\ calls[1].key = last.key
    /\ calls[1].obj.ann[ReplicatedByAnnotation] \notin DOMAIN objectStore

\* the pull pairs <<T, S>> of a target that does not push, whose source
\* exists and permits the replication, neither asking for a single one nor
\* ignored for its annotations
PermittedPairs ==
    { p \in PullPairs :
        /\ getReplicationTargets(apiStore[p[1]]).isNil
        /\ p[2] \in DOMAIN apiStore
        /\ ~Ignored(apiStore[p[1]])
        /\ ~Ignored(apiStore[p[2]])
        /\ PermissionHolds(p[1], p[2])
        /\ ~Once(apiStore[p[1]])
        /\ ~Once(apiStore[p[2]]) }

\* the target carries the payload of the source, or the payload that the user
\* gave it since without touching its annotations
CarriesPayloadOf(target, source) ==
    \/ apiStore[target].data = apiStore[source].data
    \/ apiStore[target].data = apiStore[target].rv

\* C38: once the events of a target and of the source that permits it have
\* been handled, in whichever order, the target carries the payload and the
\* resource version of the source and is registered in targetsFrom of the
\* source
PullPairOrderIndependent ==
    (Drained /\ ~Rejected) =>
        \A p \in PermittedPairs :
            /\ HasVersionOf(p[1], p[2])
            /\ CarriesPayloadOf(p[1], p[2])
            /\ p[2] \in DOMAIN targetsFrom
            /\ p[1] \in Range(targetsFrom[p[2]])

\* the target was handled first, while its source did not exist: the
\* ObjectAdded pass of the source has updated the registered target, which
\* carries the first payload and version of the source
SourceHandledSecond ==
    /\ last.h = "ObjectAdded"
    /\ \E p \in PermittedPairs :
          /\ last.key = p[2]
          /\ apiStore[p[2]].rv.n = 1
          /\ \E i \in 1..Len(calls) :
                calls[i].op = "update" /\ calls[i].ok /\ calls[i].key = p[1]
          /\ HasVersionOf(p[1], p[2])
          /\ apiStore[p[1]].data = apiStore[p[2]].data
          /\ p[1] \in Range(targetsFrom[p[2]])

\* the number of entries of targetsFrom of the key in the map
Registered(map, key) == IF key \in DOMAIN map THEN Len(map[key]) ELSE 0

\* the step is the ObjectAdded pass of a resync of an unchanged object that
\* pulls from a source that the store does not hold
ResyncOfWaitingTarget ==
    /\ ObjectAddedStep
    /\ NextDelta.t = "sync"
    /\ ~Ignored(NextDelta.obj)
    /\ getReplicationTargets(NextDelta.obj).isNil
    /\ ~Has(NextDelta.obj.ann, ReplicatedByAnnotation)
    /\ resolveAnnotation(NextDelta.obj, ReplicateFromAnnotation).ok
    /\ resolveAnnotation(NextDelta.obj, ReplicateFromAnnotation).val \notin DOMAIN objectStore

\* C39: the ObjectAdded pass of the resync of an unchanged target does not
\* lengthen targetsFrom of the source it names when the source does not exist
ResyncKeepsWaitingList ==
    [][ResyncOfWaitingTarget =>
         LET k == resolveAnnotation(NextDelta.obj, ReplicateFromAnnotation).val
         IN  Registered(targetsFrom', k) <= Registered(targetsFrom, k)]_vars

\* what the pass does: it lengthens targetsFrom of the missing source by one
\* entry, the key of the target, which the list already holds
ResyncRegistersAgain ==
    [][ResyncOfWaitingTarget =>
         LET k == resolveAnnotation(NextDelta.obj, ReplicateFromAnnotation).val
         IN  /\ Registered(targetsFrom', k) = Registered(targetsFrom, k) + 1
             /\ KeyOf(NextDelta.obj) \in Range(targetsFrom[k])]_vars

\* the Install calls of the last pass that create the target of a source that
\* carries replicate-from
CreatingInstalls ==
    { i \in FromInstalls : IsNil(calls[i].prev) /\ calls[i].obj.rv = NoRV }

\* the Update calls of the last pass on a replica that carries the
\* replicate-from annotation of its source
PullsIntoReplica ==
    { i \in 1..Len(calls) :
        /\ calls[i].op = "update"
        /\ ~IsNil(calls[i].prev)
        /\ Has(calls[i].prev.ann, ReplicatedByAnnotation)
        /\ Has(calls[i].prev.ann, ReplicateFromAnnotation) }

=============================================================================
